---- MODULE Spec2Model ----
(***************************************************************************)
(* A model of pyRdfa (RDFLib/pyrdfa3): CURIE and term resolution           *)
(* (TermOrCurie.py), the recursive tree walk (parse.py), the top-level     *)
(* entry points (__init__.py) and the vocabulary cache (ProfileCache.py).  *)
(*                                                                         *)
(* Strings are sequences of one-character strings, so that split, lower,   *)
(* the NCNAME match and concatenation are computed, not assumed.           *)
(***************************************************************************)
EXTENDS Integers, Sequences, FiniteSets, TLC

VARIABLES
    rdfa_version,       \* state.rdfa_version: "1.0" or "1.1"
    ns,                 \* TermOrCurie.ns: prefix -> base
    terms,              \* TermOrCurie.terms: term -> URI
    default_term_uri,   \* TermOrCurie.default_term_uri (NoVocab when None)
    bnodes,             \* module global _bnodes: local name -> blank node
    nextBNode,          \* the next blank node BNode() hands out
    doc,                \* number of the document being parsed (1, 2, ...)
    handles,            \* per document: blank nodes CURIE_to_URI returned in it
    ncalls,             \* number of resolution calls made so far
    call,               \* the last resolution call: operation, argument, result
    now,                \* datetime.datetime.utcnow(), in hours
    ticks,              \* number of times the clock was advanced
    run,                \* number of the process run (1, 2, ...)
    area,               \* what the process can do with the cache directory
    index,              \* the persistent cache index: URI -> reference or NoRef
    files,              \* the cached artifacts on disk: URI -> content or NoFile
    local_cache,        \* CachedProfile.local_cache of this process run
    fetches,            \* per URI: URIOpener calls made in this process run
    firstPath,          \* per URI: the branch its first resolve of this run took
    last,               \* the last CachedProfile construction and its outcome
    parentOf,           \* the document: the parent of each element
    attrs,              \* the document: the attributes of each element
    stack,              \* the calls of parse_one_node in progress
    states,             \* the ExecutionContext constructed for each element
    locals,             \* the arguments and local variables of each call
    list_mapping,       \* the list mappings the states refer to
    graph,              \* the graph.add calls made on the default graph
    processor_graph,    \* the records added to options.processor_graph
    dom,                \* what graph_from_DOM gave its caller
    source,             \* what graph_from_source gave its caller
    profile_stack,      \* ProfileRead.profile_stack, a class variable
    profile_cache,      \* ProfileRead.profile_cache, a class variable
    threads,            \* per thread: its CachedProfile construction in progress
    index_file,         \* the bytes of the index file in the cache directory
    dump,               \* the _dump call of the index in progress, if any
    observed,           \* what another process last loaded from the index file
    heap,               \* the dictionary objects: identity -> sources of its entries
    stored,             \* per URI: what profile_cache held when the entry was made
    instance,           \* the ProfileRead object constructed last
    vocab_graph,        \* the graph parsed from a vocabulary document
    extraction          \* what was extracted from vocab_graph, and by whom

resolveVars == <<rdfa_version, ns, terms, default_term_uri, bnodes, nextBNode,
                 doc, handles, ncalls, call>>

cacheVars == <<now, ticks, run, area, index, files, local_cache, fetches, firstPath, last>>

walkVars == <<parentOf, attrs, stack, states, locals, list_mapping, graph,
              processor_graph, dom, source>>

guardVars == <<profile_stack, profile_cache>>

objectVars == <<threads, index_file, dump, observed, heap, stored, instance,
                vocab_graph, extraction>>

vars == <<resolveVars, cacheVars, walkVars, guardVars, objectVars>>

-----------------------------------------------------------------------------
(* Bounds *)

\* longest attribute value passed to CURIE_to_URI / term_to_URI
MaxLen == 3
\* number of resolution calls in one run of the blank-node specification
MaxCalls == 4
\* number of documents parsed one after the other in the same process
MaxDocs == 2
\* number of elements of a document
MaxNodes == 4
\* number of process runs sharing the persistent cache
MaxRuns == 2
\* number of times the clock advances
MaxTicks == 1
\* depth of the path of elements whose prefix tables are built
MaxDepth == 3
\* number of documents being parsed at a time, one inside the other
MaxNesting == 4
\* number of threads of one process that parse documents
MaxThreads == 2

-----------------------------------------------------------------------------
(* Strings *)

Chars == {"a", "A", "b", ":", "_"}

StringsUpTo(n) == UNION {[1..k -> Chars] : k \in 0..n}

Values == StringsUpTo(MaxLen)

\* str.lower() on one character
LowerChar(c) == IF c = "A" THEN "a" ELSE c

\* str.lower()
Lower(s) == [i \in 1..Len(s) |-> LowerChar(s[i])]

\* ncname = re.compile("^[A-Za-z][A-Za-z0-9._-]*$")
ncname(s) ==
    /\ Len(s) >= 1
    /\ s[1] \in {"a", "A", "b"}
    /\ \A i \in 2..Len(s) : s[i] \in {"a", "A", "b", "_"}

\* position of the first ':' of s, 0 if there is none
FirstColon(s) ==
    IF \E i \in 1..Len(s) : s[i] = ":"
    THEN CHOOSE i \in 1..Len(s) : s[i] = ":" /\ \A j \in 1..(i-1) : s[j] # ":"
    ELSE 0

\* val.split(':', 1): the part before and the part after the first ':'
SplitPrefix(s) == SubSeq(s, 1, FirstColon(s) - 1)
SplitReference(s) == SubSeq(s, FirstColon(s) + 1, Len(s))

-----------------------------------------------------------------------------
(* Values returned by the resolution functions *)

None == [k |-> "None", v |-> <<>>, id |-> 0]
URIRef(s) == [k |-> "URIRef", v |-> s, id |-> 0]
BNodeOf(n) == [k |-> "BNode", v |-> <<>>, id |-> n]

\* _empty_bnode = BNode(), created when the module is loaded
EmptyBNodeId == 0

\* Namespace(XHTML_URI): the default CURIE base of the top-level table
XHTML_URI == <<"xhv#">>

\* absent default vocabulary (default_term_uri = None)
NoVocab == <<>>

\* a function extended or overwritten at one key (dict[k] = v)
Put(f, k, v) == [x \in (DOMAIN f) \cup {k} |-> IF x = k THEN v ELSE f[x]]

EmptyDict == [x \in {} |-> <<>>]

-----------------------------------------------------------------------------
(* TermOrCurie.CURIE_to_URI *)

\* the prefix the table is searched for: lower-cased from RDFa 1.1 on
CuriePrefix(val) ==
    IF rdfa_version = "1.1" THEN Lower(SplitPrefix(val)) ELSE SplitPrefix(val)

\* a plausible slip: the new blank node is returned but not remembered
RegisterBNode_Forgets(reference) == bnodes

\* _bnodes[reference] = retval
RegisterBNode(reference) == Put(bnodes, reference, nextBNode)

\* the "_:" branch: the reserved blank node, a remembered one, or a new one
BNodeBranch(reference) ==
    IF Len(reference) = 0
    THEN [res |-> BNodeOf(EmptyBNodeId), bnodes |-> bnodes, next |-> nextBNode]
    ELSE IF reference \in DOMAIN bnodes
    THEN [res |-> BNodeOf(bnodes[reference]), bnodes |-> bnodes, next |-> nextBNode]
    ELSE [res |-> BNodeOf(nextBNode), bnodes |-> RegisterBNode(reference),
          next |-> nextBNode + 1]

\* a plausible slip: the reference is dropped from the result
NamespaceBranch_DropsReference(prefix, reference) ==
    IF prefix \in DOMAIN ns THEN URIRef(ns[prefix]) ELSE None

\* the branch of a non-empty NCNAME prefix: self.ns[prefix][reference]
NamespaceBranch(prefix, reference) ==
    IF prefix \in DOMAIN ns
    THEN IF Len(reference) = 0 THEN URIRef(ns[prefix])
         ELSE URIRef(ns[prefix] \o reference)
    ELSE None

Pure(r) == [res |-> r, bnodes |-> bnodes, next |-> nextBNode]

\* the result of CURIE_to_URI(val) with the registry it leaves behind
CURIE_to_URI(val) ==
    IF val = <<>> \/ val = <<":">> THEN Pure(None)
    ELSE IF FirstColon(val) = 0 THEN Pure(None)
    ELSE LET prefix == CuriePrefix(val)
             reference == SplitReference(val)
         IN IF Len(reference) > 0 /\ reference[1] = ":" THEN Pure(None)
            ELSE IF Len(prefix) = 0 THEN Pure(URIRef(XHTML_URI \o reference))
            ELSE IF prefix = <<"_">> THEN BNodeBranch(reference)
            ELSE IF ncname(prefix) THEN Pure(NamespaceBranch(prefix, reference))
            ELSE Pure(None)

-----------------------------------------------------------------------------
(* TermOrCurie.term_to_URI *)

\* the keys the case insensitive loop can stop at
CaseInsensitiveMatches(term) ==
    {k \in DOMAIN terms : Lower(term) = Lower(k)}

\* the predecessor in Curie.py: a case insensitive comparison only
term_to_URI_Curie(term) ==
    IF Len(term) = 0 THEN {None}
    ELSE IF ncname(term)
    THEN IF \E k \in DOMAIN terms : Lower(term) = k
         THEN {URIRef(terms[k]) : k \in {x \in DOMAIN terms : Lower(term) = x}}
         ELSE IF default_term_uri # NoVocab
         THEN {URIRef(default_term_uri \o term)}
         ELSE {None}
    ELSE {None}

\* the set of results term_to_URI(term) can return: one value, except that the
\* case insensitive loop iterates a dictionary, whose order is not fixed
term_to_URI(term) ==
    IF Len(term) = 0 THEN {None}
    ELSE IF ncname(term)
    THEN IF term \in DOMAIN terms THEN {URIRef(terms[term])}
         ELSE IF CaseInsensitiveMatches(term) # {}
         THEN {URIRef(terms[k]) : k \in CaseInsensitiveMatches(term)}
         ELSE IF default_term_uri # NoVocab
         THEN {URIRef(default_term_uri \o term)}
         ELSE {None}
    ELSE {None}

-----------------------------------------------------------------------------
(* ProfileCache.CachedProfile: the vocabulary cache *)

\* datetime.timedelta(hours=1), the unit of time
OneHour == 1
\* datetime.timedelta(days=1)
OneDay == 24

URIs == {"u1", "u2"}

\* the (terms, ns, vocabulary) of a vocabulary document, as one value: "old" is
\* what an earlier run cached, "new" what the origin serves now
EMPTY == "({},{},'')"
Contents == {"old", "new"}

\* an index entry (filename, creation_date, expiration_date); a date that is
\* None is the empty sequence
NoDate == <<>>
NoRef == [filename |-> "", created |-> NoDate, expires |-> 0]
Ref(u, created, expires) == [filename |-> u, created |-> created, expires |-> expires]

\* the cache directory: usable; readable only (CachedProfileIndex.__init__
\* returns before the index is loaded and nothing can be written); or holding
\* an index file that cannot be unpickled (caching is given up)
Areas == {"writable", "readonly", "broken index"}

\* self.get_ref(URI) on the index as this process has loaded it
get_ref(u) == IF area = "writable" THEN index[u] ELSE NoRef
NoFile == "no file"
NoEntry == "no entry"

\* the dates URIOpener can give a response fetched at time t: the Expires
\* header, or one day after the fetch
ResponseExpiries(t) == {t + OneDay, t - OneHour}

\* what URIOpener and the parser make of one request: the server cannot be
\* reached, the document cannot be parsed, or a graph is obtained. expires is
\* URIOpener.expiration_date: the Expires header, or one day from now
NetOutcomes ==
    {[k |-> "unreachable", content |-> EMPTY, expires |-> 0],
     [k |-> "unparsable", content |-> "new", expires |-> 0]}
    \cup {[k |-> "ok", content |-> "new", expires |-> e] :
             e \in {now + OneDay, now - OneHour}}

\* the options argument of CachedProfile.__init__: an Options object or None
OptionsArgs == {"Options", "None"}

\* _load(fname): the artifact, or an exception when it cannot be read
Loadable(u) == files[u] # NoFile

\* a plausible slip: the run time cache is not consulted
InLocalCache_Never(u) == FALSE

\* if URI in CachedProfile.local_cache
InLocalCache(u) == local_cache[u] # NoEntry

\* CachedProfile.local_cache[URI] = ({},{},"")
Stake(u) == [local_cache EXCEPT ![u] = EMPTY]

Outcome(path, fetched, raised, result, idx, fls, lc) ==
    [path |-> path, fetched |-> fetched, raised |-> raised, result |-> result,
     index |-> idx, files |-> fls, local_cache |-> lc]

\* a plausible slip: a cache that cannot be written is an error
Stored_Raises(path, fetched, u, result, created, expires) ==
    IF area = "writable"
    THEN Outcome(path, fetched, "", result,
                 [index EXCEPT ![u] = Ref(u, created, expires)],
                 [files EXCEPT ![u] = result],
                 [local_cache EXCEPT ![u] = result])
    ELSE Outcome(path, fetched, "IOError", EMPTY, index, files, Stake(u))

\* _store_caches: the artifact and the index entry are written
Stored(path, fetched, u, result, created, expires) ==
    IF area = "writable"
    THEN Outcome(path, fetched, "", result,
                 [index EXCEPT ![u] = Ref(u, created, expires)],
                 [files EXCEPT ![u] = result],
                 [local_cache EXCEPT ![u] = result])
    ELSE Outcome(path, fetched, "", result, index, files,
                 [local_cache EXCEPT ![u] = result])

\* the branch "This has never been cached before"
NewCacheBranch(u, net) ==
    IF net.k \in {"unreachable", "unparsable"}
    THEN Outcome("new", 1, "FailedProfile", EMPTY, index, files, Stake(u))
    ELSE Stored("new", 1, u, net.content, NoDate, net.expires)

\* the branch of an index entry that has not expired
FreshBranch(u) ==
    LET result == IF Loadable(u) THEN files[u] ELSE EMPTY
    IN Outcome("fresh", 0, "", result, index, files,
               [local_cache EXCEPT ![u] = result])

\* self.expiration_date = utcnow() + timedelta(hours=1)
FallbackExpiry(u) == now + OneHour

\* the branch "we have to refresh the graph"
RefreshBranch(u, opts, net) ==
    IF net.k = "unreachable" /\ opts = "None"
    THEN \* return_to_cache: self.options.add_warning on None
         Outcome("refresh", 1, "AttributeError", EMPTY, index, files, Stake(u))
    ELSE IF net.k = "unparsable"
    THEN Outcome("refresh", 1, "FailedProfile", EMPTY, index, files, Stake(u))
    ELSE \* _get_profile_data returns None whether or not a graph was obtained
         LET extracted == IF net.k = "ok" THEN net.content ELSE EMPTY
             expiry == IF net.k = "ok" THEN net.expires ELSE index[u].expires
         IN IF Loadable(u)
            THEN Stored("refresh", 1, u, files[u], <<now>>, FallbackExpiry(u))
            ELSE Stored("refresh", 1, u, extracted, <<now>>, expiry)

\* CachedProfile.__init__ below the test of local_cache: the index is asked
\* and one of the three branches is taken
FromDirectory(u, opts, net) ==
    IF get_ref(u) = NoRef THEN NewCacheBranch(u, net)
    ELSE IF now <= index[u].expires THEN FreshBranch(u)
    ELSE RefreshBranch(u, opts, net)

\* CachedProfile.__init__(URI, options): the branch taken, whether the network
\* was asked, the exception raised (if any), the (terms, ns, vocabulary) of the
\* new object and what is left in the index, on disk and in the run time cache
CachedProfile(u, opts, net) ==
    IF InLocalCache(u)
    THEN Outcome("local_cache", 0, "", local_cache[u], index, files, local_cache)
    ELSE FromDirectory(u, opts, net)

NoResolve == [uri |-> "", opts |-> "", net |-> "", path |-> "", fetched |-> 0,
              raised |-> "", result |-> EMPTY, unexpired |-> FALSE,
              expired |-> FALSE, cached |-> NoFile, at |-> 0]

\* a process that has not resolved anything; the cache directory is empty
CacheIdle ==
    /\ now = 0
    /\ ticks = 0
    /\ run = 1
    /\ area = "writable"
    /\ index = [u \in URIs |-> NoRef]
    /\ files = [u \in URIs |-> NoFile]
    /\ local_cache = [u \in URIs |-> NoEntry]
    /\ fetches = [u \in URIs |-> 0]
    /\ firstPath = [u \in URIs |-> ""]
    /\ last = NoResolve

\* what earlier runs can have left in the cache directory for one URI: nothing,
\* or an index entry (expired or not) with its artifact, or with an artifact
\* that cannot be read (_store_caches enters the reference also when the dump
\* of the artifact failed)
LeftBehind(u) ==
    {[ref |-> NoRef, file |-> NoFile]}
    \cup {[ref |-> Ref(u, <<0 - OneDay>>, e), file |-> f] :
             e \in {0 - OneHour, OneHour}, f \in {"old", NoFile}}

CacheDirectory ==
    /\ now = 0
    /\ ticks = 0
    /\ run = 1
    /\ area \in Areas
    /\ \E left \in [URIs -> UNION {LeftBehind(u) : u \in URIs}] :
          /\ \A u \in URIs : left[u] \in LeftBehind(u)
          /\ index = [u \in URIs |-> left[u].ref]
          /\ files = [u \in URIs |-> left[u].file]
    /\ local_cache = [u \in URIs |-> NoEntry]
    /\ fetches = [u \in URIs |-> 0]
    /\ firstPath = [u \in URIs |-> ""]
    /\ last = NoResolve

Resolve(u, opts, net) ==
    LET o == CachedProfile(u, opts, net)
    IN /\ index' = o.index
       /\ files' = o.files
       /\ local_cache' = o.local_cache
       /\ fetches' = [fetches EXCEPT ![u] = @ + o.fetched]
       /\ firstPath' = IF firstPath[u] = "" THEN [firstPath EXCEPT ![u] = o.path]
                       ELSE firstPath
       /\ last' = [uri |-> u, opts |-> opts,
                   net |-> IF o.fetched = 1 THEN net.k ELSE "",
                   path |-> o.path, fetched |-> o.fetched, raised |-> o.raised,
                   result |-> o.result,
                   unexpired |-> get_ref(u) # NoRef /\ now <= index[u].expires,
                   expired |-> get_ref(u) # NoRef /\ ~(now <= index[u].expires),
                   cached |-> files[u], at |-> now]
       /\ UNCHANGED <<now, ticks, run, area>>

ResolveStep ==
    \E u \in URIs, opts \in OptionsArgs, net \in NetOutcomes :
        Resolve(u, opts, net)

\* time passes: an hour, or more than a day
Tick ==
    /\ ticks < MaxTicks
    /\ \E d \in {OneHour, OneDay + OneHour} : now' = now + d
    /\ ticks' = ticks + 1
    /\ UNCHANGED <<run, area, index, files, local_cache, fetches, firstPath, last>>

\* the process ends and another one starts: the class variable local_cache is
\* empty again, the cache directory is as it was left
Restart ==
    /\ run < MaxRuns
    /\ run' = run + 1
    /\ local_cache' = [u \in URIs |-> NoEntry]
    /\ fetches' = [u \in URIs |-> 0]
    /\ firstPath' = [u \in URIs |-> ""]
    /\ last' = NoResolve
    /\ UNCHANGED <<now, ticks, area, index, files>>

NextCache == (ResolveStep \/ Tick \/ Restart) /\ UNCHANGED <<resolveVars, walkVars, guardVars, objectVars>>

-----------------------------------------------------------------------------
(* Tables a TermOrCurie instance can hold *)

Versions == {"1.0", "1.1"}

Bases == {<<"B1">>, <<"B2">>}
NsKeys == {<<"a">>, <<"A">>, <<"b">>}

\* from RDFa 1.1 on every declared prefix is stored lower-cased
NsTables(version) ==
    LET keys == IF version = "1.1" THEN {k \in NsKeys : Lower(k) = k} ELSE NsKeys
    IN UNION {[d -> Bases] : d \in SUBSET keys}

TermURIs == {<<"T1">>, <<"T2">>}
TermKeys == {<<"a">>, <<"A">>, <<"a", "A">>, <<"A", "a">>}
TermTables == UNION {[d -> TermURIs] : d \in SUBSET TermKeys}

Vocabs == {NoVocab, <<"V#">>}

NoCall == [op |-> "none", val |-> <<>>, res |-> None]

\* the module globals right after the modules are loaded
InitGlobals ==
    /\ bnodes = EmptyDict
    /\ nextBNode = 1
    /\ doc = 1
    /\ handles = [d \in 1..MaxDocs |-> <<>>]
    /\ ncalls = 0
    /\ call = NoCall

\* the process right after the modules are loaded, before any document
InitRegistry ==
    /\ InitGlobals
    /\ profile_stack = <<>>
    /\ profile_cache = [u \in URIs |-> NoEntry]

\* a thread that is not constructing a CachedProfile
IdleThread == [pc |-> "idle", uri |-> "", path |-> "", result |-> EMPTY,
               raised |-> "", overlapped |-> FALSE]

Threads == 1..MaxThreads

NoThreads == threads = [t \in Threads |-> IdleThread]

\* pickle.dump(indeces, f): the entries of the dictionary, then the STOP opcode
Item(u, ref) == [uri |-> u, ref |-> ref]
STOP == Item(".", NoRef)

\* the keys in the order the dictionary yields them
URIList == <<"u1", "u2">>

RECURSIVE Pickled(_, _)
Pickled(idx, us) ==
    IF us = <<>> THEN <<STOP>>
    ELSE (IF idx[Head(us)] = NoRef THEN <<>>
          ELSE <<Item(Head(us), idx[Head(us)])>>)
         \o Pickled(idx, Tail(us))

NoDump == [pc |-> "closed", old |-> <<STOP>>, new |-> <<STOP>>]
NoObservation == [seen |-> <<STOP>>, old |-> <<STOP>>, new |-> <<STOP>>]

\* the index file as CachedProfileIndex.__init__ creates it, no process
\* writing or reading it
NoIndexFile ==
    /\ index_file = <<STOP>>
    /\ dump = NoDump
    /\ observed = NoObservation

\* a (terms, ns, vocabulary) whose dictionaries are the objects t and n
Tuple(t, n, vocabulary) == [terms |-> t, ns |-> n, vocabulary |-> vocabulary]
NoTuple == Tuple(0, 0, NoVocab)

\* the dictionaries a process can allocate, none of them with an entry
Objects == 1..(2 * MaxCalls)

NoDictionaries ==
    /\ heap = [o \in Objects |-> {}]
    /\ stored = [u \in URIs |-> NoTuple]
    /\ instance = NoTuple

\* a vocabulary graph: the objects of rdfa:vocabulary, the literals of
\* rdfa:term and of rdfa:prefix (each with a subject and a rdfa:uri of its own)
VocabGraph(voc_defs, ts, ps) == [voc_defs |-> voc_defs, terms |-> ts, prefixes |-> ps]
NotExtracted == [reader |-> "", options |-> "", raised |-> "", vocabulary |-> {},
                 terms |-> {}, ns |-> {}, warnings |-> <<>>]

NoVocabGraph ==
    /\ vocab_graph = VocabGraph({}, {}, {})
    /\ extraction = NotExtracted

\* no thread but the main one, no other process, no ProfileRead object
NoObjects ==
    /\ NoThreads
    /\ NoIndexFile
    /\ NoDictionaries
    /\ NoVocabGraph

-----------------------------------------------------------------------------
(* The document: a tree of elements with RDFa attributes *)

Nodes == 1..MaxNodes
Root == 1

\* the elements are numbered in document order: the parent of an element is
\* the element before it or one of that element's ancestors; 0 stands for
\* the document, the parent of the root element
RECURSIVE IsSelfOrAncestor(_, _, _)
IsSelfOrAncestor(par, a, n) ==
    IF n = 0 THEN FALSE
    ELSE IF a = n THEN TRUE
    ELSE IsSelfOrAncestor(par, a, par[n])

Trees ==
    {par \in [Nodes -> 0..MaxNodes] :
        /\ par[Root] = 0
        /\ \A n \in Nodes \ {Root} :
              /\ par[n] \in 1..(n - 1)
              /\ IsSelfOrAncestor(par, par[n], n - 1)}

RECURSIVE Ascending(_)
Ascending(S) ==
    IF S = {} THEN <<>>
    ELSE LET m == CHOOSE x \in S : \A y \in S : x <= y
         IN <<m>> \o Ascending(S \ {m})

\* node.childNodes, the element nodes among them, in document order
childNodes(n) == Ascending({c \in Nodes : parentOf[c] = n})

IsDescendant(d, n) == d # n /\ IsSelfOrAncestor(parentOf, n, d)

\* the attributes of an element that the walk reads: the presence of @about,
\* of a resource attribute (@resource, @href), of @typeof, @property and
\* @inlist, the values of @rel, @rev and @property, a @profile whose document
\* cannot be dereferenced, the attributes among @about and the resource
\* attribute whose value is an illegal CURIE, and a @datatype that is
\* rdf:XMLLiteral on an element without @content
Attr(about, resource, typeof, property, rel, rev, inlist, profile) ==
    [about |-> about, resource |-> resource, typeof |-> typeof,
     property |-> property, rel |-> rel, rev |-> rev, inlist |-> inlist,
     profile |-> profile,
     properties |-> IF property THEN <<"property">> ELSE <<>>,
     malformed |-> {}, xml |-> FALSE]

Plain           == Attr(FALSE, FALSE, FALSE, FALSE, <<>>, <<>>, FALSE, FALSE)
About           == Attr(TRUE, FALSE, FALSE, FALSE, <<>>, <<>>, FALSE, FALSE)
Typeof          == Attr(FALSE, FALSE, TRUE, FALSE, <<>>, <<>>, FALSE, FALSE)
Property        == Attr(FALSE, FALSE, FALSE, TRUE, <<>>, <<>>, FALSE, FALSE)
RelHanging      == Attr(FALSE, FALSE, FALSE, FALSE, <<"p">>, <<>>, FALSE, FALSE)
RelResource     == Attr(FALSE, TRUE, FALSE, FALSE, <<"p">>, <<>>, FALSE, FALSE)
RelBlank        == Attr(FALSE, TRUE, FALSE, FALSE, <<"_:b">>, <<>>, FALSE, FALSE)
RevHanging      == Attr(FALSE, FALSE, FALSE, FALSE, <<>>, <<"p">>, FALSE, FALSE)
AboutRel        == Attr(TRUE, FALSE, FALSE, FALSE, <<"p">>, <<>>, FALSE, FALSE)
InlistResource  == Attr(FALSE, TRUE, FALSE, FALSE, <<"p">>, <<>>, TRUE, FALSE)
InlistResourceQ == Attr(FALSE, TRUE, FALSE, FALSE, <<"q">>, <<>>, TRUE, FALSE)
InlistHanging   == Attr(FALSE, FALSE, FALSE, FALSE, <<"p">>, <<>>, TRUE, FALSE)
FailingProfile  == Attr(FALSE, FALSE, FALSE, FALSE, <<>>, <<>>, FALSE, TRUE)
AboutFailingProfile == Attr(TRUE, FALSE, FALSE, FALSE, <<>>, <<>>, FALSE, TRUE)

\* elements with an illegal CURIE, with an XML literal, and with several
\* values of which one is a blank node
BadAbout          == [About EXCEPT !.malformed = {"about"}]
BadAboutTypeof    == [Typeof EXCEPT !.about = TRUE, !.malformed = {"about"}]
BadAboutResource  == [About EXCEPT !.resource = TRUE, !.malformed = {"about"}]
BadAboutProperty  == [Property EXCEPT !.about = TRUE, !.malformed = {"about"}]
RelBadResource    == [RelResource EXCEPT !.malformed = {"resource"}]
PropertyXML       == [Property EXCEPT !.xml = TRUE]
AboutProperty     == [Property EXCEPT !.about = TRUE]
RelBlankMixed     == [RelResource EXCEPT !.rel = <<"_:b", "p">>]
RevBlankMixed     == [RelResource EXCEPT !.rel = <<>>, !.rev = <<"p", "_:b">>]
PropertyBlank     == [Property EXCEPT !.properties = <<"property", "_:b">>]

\* top_about gives the root element an @about if it has none
RootElements == {About, AboutRel, AboutFailingProfile}
Elements == {Plain, About, Typeof, Property, RelHanging, RelResource, RelBlank,
             RevHanging, AboutRel, InlistResource, InlistResourceQ,
             InlistHanging, FailingProfile}

\* the predicates a @rel or @rev value resolves to
Preds == {"p", "q"}
IsBlankPred(p) == p = "_:b"

\* has_one_of_attributes(node, "href", "resource", "about", "property", "rel",
\* "rev", "typeof", "src", "vocab", "prefix")
has_one_of_attributes(a) ==
    \/ a.about \/ a.resource \/ a.typeof
    \/ a.property \/ a.rel # <<>> \/ a.rev # <<>>

has_rdfa_attributes(n) == has_one_of_attributes(attrs[n])

\* has_one_of_attributes(node, "rel", "rev")
has_rel_or_rev(n) == attrs[n].rel # <<>> \/ attrs[n].rev # <<>>

\* state.getURI(attr): the identifier an attribute of element n resolves to
AboutURI(n) == [k |-> "URIRef", v |-> <<"about">>, id |-> n]
ResourceURI(n) == [k |-> "URIRef", v |-> <<"resource">>, id |-> n]
TypeURI == URIRef(<<"T">>)
PredURI(p) == URIRef(<<p>>)
LiteralOf(n) == [k |-> "Literal", v |-> <<>>, id |-> n]
XMLLiteralOf(n) == [k |-> "Literal", v |-> <<"XMLLiteral">>, id |-> n]
rdf_type == URIRef(<<"rdf:type">>)
rdf_first == URIRef(<<"rdf:first">>)
rdf_rest == URIRef(<<"rdf:rest">>)
rdf_nil == URIRef(<<"rdf:nil">>)

\* a call of graph.add on the default graph: the triple, the element whose
\* parse_one_node call made it, the part of that call (before the children:
\* "enter", the completion after them: "return", the list generation: "list")
\* and, for a completed triple, the element that left it incomplete
Add(s, p, o, by, at, origin) ==
    [s |-> s, p |-> p, o |-> o, by |-> by, at |-> at, origin |-> origin]

\* an entry of incomplete_triples and the element that made it
Incomplete(s, p, o, origin) == [s |-> s, p |-> p, o |-> o, origin |-> origin]

\* an ExecutionContext that has not been constructed, local variables of a
\* call that has not been made
NoState == [setting_subject |-> FALSE, scope |-> 0 - 1]
NotCalled == [called |-> FALSE]

\* a list mapping without entries
EmptyMapping == [p \in Preds |-> <<>>]

NoResult == [outcome |-> "", exception |-> "", at |-> 0, graph |-> {}]

\* no document is being processed
WalkIdle ==
    /\ parentOf = [n \in Nodes |-> n - 1]
    /\ attrs = [n \in Nodes |-> Plain]
    /\ stack = <<>>
    /\ states = [n \in 0..MaxNodes |-> NoState]
    /\ locals = [n \in Nodes |-> NotCalled]
    /\ list_mapping = [n \in 0..MaxNodes |-> EmptyMapping]
    /\ graph = <<>>
    /\ processor_graph = <<>>
    /\ dom = NoResult
    /\ source = NoResult

-----------------------------------------------------------------------------
(* Resolution calls *)

Call_CURIE_to_URI(val) ==
    LET r == CURIE_to_URI(val)
    IN /\ call' = [op |-> "CURIE_to_URI", val |-> val, res |-> r.res]
       /\ bnodes' = r.bnodes
       /\ nextBNode' = r.next
       /\ handles' = IF r.res.k = "BNode"
                     THEN [handles EXCEPT ![doc] =
                              Append(@, [name |-> SplitReference(val), id |-> r.res.id])]
                     ELSE handles
       /\ ncalls' = ncalls + 1
       /\ UNCHANGED <<rdfa_version, ns, terms, default_term_uri, doc>>

Call_term_to_URI(term) ==
    /\ \E r \in term_to_URI(term) :
           call' = [op |-> "term_to_URI", val |-> term, res |-> r]
    /\ ncalls' = ncalls + 1
    /\ UNCHANGED <<rdfa_version, ns, terms, default_term_uri, bnodes, nextBNode,
                   doc, handles>>

\* graph_from_DOM is entered for the next document of the same process: the
\* module globals _bnodes and _empty_bnode are left as they are
NewDocument ==
    /\ doc < MaxDocs
    /\ doc' = doc + 1
    /\ call' = NoCall
    /\ UNCHANGED <<rdfa_version, ns, terms, default_term_uri, bnodes, nextBNode,
                   handles, ncalls>>

-----------------------------------------------------------------------------
(* CURIE_to_URI as a function of its argument and its table *)

InitCurie ==
    /\ CacheIdle
    /\ WalkIdle
    /\ rdfa_version \in Versions
    /\ ns \in NsTables(rdfa_version)
    /\ terms = EmptyDict
    /\ default_term_uri = NoVocab
    /\ InitRegistry
    /\ NoObjects

NextCurie ==
    /\ \E val \in Values : ncalls = 0 /\ Call_CURIE_to_URI(val)
    /\ UNCHANGED <<cacheVars, walkVars, guardVars, objectVars>>

SpecCurie == InitCurie /\ [][NextCurie]_vars

(* term_to_URI as a function of its argument and its table *)

InitTerm ==
    /\ CacheIdle
    /\ WalkIdle
    /\ rdfa_version \in Versions
    /\ ns = EmptyDict
    /\ terms \in TermTables
    /\ default_term_uri \in Vocabs
    /\ InitRegistry
    /\ NoObjects

NextTerm ==
    /\ \E term \in Values : ncalls = 0 /\ Call_term_to_URI(term)
    /\ UNCHANGED <<cacheVars, walkVars, guardVars, objectVars>>

SpecTerm == InitTerm /\ [][NextTerm]_vars

(* Blank node CURIEs resolved over several documents of one process *)

BNodeNames == {<<>>, <<"a">>, <<"b">>, <<"A">>}
BNodeCuries == {<<"_", ":">> \o n : n \in BNodeNames} \cup {<<"a", ":", "a">>}

InitBNode ==
    /\ CacheIdle
    /\ WalkIdle
    /\ rdfa_version \in Versions
    /\ ns = [k \in {<<"a">>} |-> <<"B1">>]
    /\ terms = EmptyDict
    /\ default_term_uri = NoVocab
    /\ InitRegistry
    /\ NoObjects

CallBNode == \E val \in BNodeCuries : ncalls < MaxCalls /\ Call_CURIE_to_URI(val)

NextBNode == (CallBNode \/ NewDocument) /\ UNCHANGED <<cacheVars, walkVars, guardVars, objectVars>>

SpecBNode == InitBNode /\ [][NextBNode]_vars

InitCache ==
    /\ CacheDirectory
    /\ WalkIdle
    /\ rdfa_version = "1.1"
    /\ ns = EmptyDict
    /\ terms = EmptyDict
    /\ default_term_uri = NoVocab
    /\ InitRegistry
    /\ NoObjects

SpecCache == InitCache /\ [][NextCache]_vars

-----------------------------------------------------------------------------
(* CachedProfile constructed by several threads of one process *)

\* the threads that have put their stake for u into local_cache and have not
\* yet stored what they obtained
InProgress(u) ==
    {t \in Threads : threads[t].uri = u /\ threads[t].pc \in {"staked", "resolved"}}

\* "if URI in CachedProfile.local_cache: ... return"; otherwise the index is
\* set up and asked for the reference of the URI
ThreadEnters(t) ==
    /\ threads[t].pc \in {"idle", "returned"}
    /\ ncalls < MaxCalls
    /\ ncalls' = ncalls + 1
    /\ \E u \in URIs :
          threads' = [threads EXCEPT ![t] =
              IF InLocalCache(u)
              THEN [pc |-> "returned", uri |-> u, path |-> "local_cache",
                    result |-> local_cache[u], raised |-> "",
                    overlapped |-> InProgress(u) # {}]
              ELSE [IdleThread EXCEPT !.pc = "indexed", !.uri = u]]
    /\ UNCHANGED <<index, files, local_cache, fetches>>

\* CachedProfile.local_cache[URI] = ({},{},"")
ThreadStakes(t) ==
    /\ threads[t].pc = "indexed"
    /\ local_cache' = Stake(threads[t].uri)
    /\ threads' = [threads EXCEPT ![t].pc = "staked"]
    /\ UNCHANGED <<index, files, fetches, ncalls>>

\* one of the three branches: the document is fetched or the artifact is
\* loaded, and the cache directory is written
ThreadResolves(t) ==
    /\ threads[t].pc = "staked"
    /\ \E opts \in OptionsArgs, net \in NetOutcomes :
          LET u == threads[t].uri
              o == FromDirectory(u, opts, net)
          IN /\ index' = o.index
             /\ files' = o.files
             /\ fetches' = [fetches EXCEPT ![u] = @ + o.fetched]
             /\ threads' = [threads EXCEPT ![t] =
                    [pc |-> IF o.raised = "" THEN "resolved" ELSE "returned",
                     uri |-> u, path |-> o.path, result |-> o.result,
                     raised |-> o.raised, overlapped |-> FALSE]]
    /\ UNCHANGED <<local_cache, ncalls>>

\* CachedProfile.local_cache[URI] = (self.terms, self.ns, self.vocabulary)
ThreadStores(t) ==
    /\ threads[t].pc = "resolved"
    /\ local_cache' = [local_cache EXCEPT ![threads[t].uri] = threads[t].result]
    /\ threads' = [threads EXCEPT ![t].pc = "returned"]
    /\ UNCHANGED <<index, files, fetches, ncalls>>

InitThreads ==
    /\ CacheIdle
    /\ WalkIdle
    /\ rdfa_version = "1.1"
    /\ ns = EmptyDict
    /\ terms = EmptyDict
    /\ default_term_uri = NoVocab
    /\ InitRegistry
    /\ NoObjects

NextThreads ==
    /\ \E t \in Threads :
          ThreadEnters(t) \/ ThreadStakes(t) \/ ThreadResolves(t) \/ ThreadStores(t)
    /\ UNCHANGED <<rdfa_version, ns, terms, default_term_uri, bnodes, nextBNode,
                   doc, handles, call, now, ticks, run, area, firstPath, last,
                   walkVars, guardVars, index_file, dump, observed, heap, stored,
                   instance, vocab_graph, extraction>>

SpecThreads == InitThreads /\ [][NextThreads]_vars

-----------------------------------------------------------------------------
(* The index file, written by one process and read by another *)

\* add_ref: self.indeces[uri] = profile_reference, then _dump up to
\* open(fname, "w"), which truncates the file
add_ref_Opens ==
    /\ dump.pc = "closed"
    /\ ncalls < MaxCalls
    /\ ncalls' = ncalls + 1
    /\ \E u \in URIs, e \in ResponseExpiries(now) :
          LET idx == [index EXCEPT ![u] = Ref(u, NoDate, e)]
          IN /\ index' = idx
             /\ dump' = [pc |-> "open", old |-> index_file,
                         new |-> Pickled(idx, URIList)]
    /\ index_file' = <<>>
    /\ UNCHANGED observed

\* pickle.dump(obj, f, _Pickle_Protocol) and f.flush(): the bytes reach the
\* file piece by piece
add_ref_Writes ==
    /\ dump.pc = "open"
    /\ Len(index_file) < Len(dump.new)
    /\ index_file' = Append(index_file, dump.new[Len(index_file) + 1])
    /\ UNCHANGED <<index, dump, observed, ncalls>>

\* f.close()
add_ref_Closes ==
    /\ dump.pc = "open"
    /\ index_file = dump.new
    /\ dump' = [dump EXCEPT !.pc = "closed"]
    /\ UNCHANGED <<index, index_file, observed, ncalls>>

\* CachedProfileIndex.__init__ of another process: _load(self.index_fname)
\* reads what the file holds at that moment
OtherProcessLoads ==
    /\ observed' = [seen |-> index_file,
                    old |-> IF dump.pc = "open" THEN dump.old ELSE index_file,
                    new |-> IF dump.pc = "open" THEN dump.new ELSE index_file]
    /\ UNCHANGED <<index, index_file, dump, ncalls>>

InitIndex ==
    /\ CacheIdle
    /\ WalkIdle
    /\ rdfa_version = "1.1"
    /\ ns = EmptyDict
    /\ terms = EmptyDict
    /\ default_term_uri = NoVocab
    /\ InitRegistry
    /\ NoObjects

NextIndex ==
    /\ add_ref_Opens \/ add_ref_Writes \/ add_ref_Closes \/ OtherProcessLoads
    /\ UNCHANGED <<rdfa_version, ns, terms, default_term_uri, bnodes, nextBNode,
                   doc, handles, call, now, ticks, run, area, files, local_cache,
                   fetches, firstPath, last, walkVars, guardVars, threads, heap,
                   stored, instance, vocab_graph, extraction>>

SpecIndex == InitIndex /\ [][NextIndex]_vars

-----------------------------------------------------------------------------
(* parse.parse_one_node: the recursive walk *)

\* state.rdfa_version >= "1.1"
Version11 == rdfa_version = "1.1"

\* ProfileRead.__init__ reads @profile under RDFa 1.1 only; _get_graph raises
\* FailedProfile when the document cannot be dereferenced or parsed, and so
\* does the construction of the ExecutionContext
ConstructionFails(n) == attrs[n].profile /\ Version11

NotBlank(p) == ~IsBlankPred(p)
PredName(u) == u.v[1]

\* state.add_to_list_mapping(prop, resource), for each prop of a sequence
RECURSIVE add_to_list_mapping(_, _, _)
add_to_list_mapping(mapping, props, resource) ==
    IF props = <<>> THEN mapping
    ELSE add_to_list_mapping(
             [mapping EXCEPT ![Head(props)] = Append(@, resource)],
             Tail(props), resource)

\* ExecutionContext(node, graph, inherited_state=incoming_state): the fields
\* the walk uses, as inherited
ExecutionContext(incoming) ==
    [setting_subject |-> states[incoming].setting_subject,
     scope |-> states[incoming].scope]

\* the loop over state.getURI("rel"), for the values that are not blank
\* nodes: the triples that are added at once
RelAdds(n, current_subject, props, current_object, listMode) ==
    IF ~listMode /\ current_object # None
    THEN [i \in 1..Len(props) |->
             Add(current_subject, props[i], current_object, n, "enter", 0)]
    ELSE <<>>

\* the same loop: the incomplete triples that are registered
RelIncomplete(n, current_subject, props, current_object, listMode) ==
    IF current_object # None THEN <<>>
    ELSE [i \in 1..Len(props) |->
             IF listMode
             THEN Incomplete(None, props[i], None, n)
             ELSE Incomplete(current_subject, props[i], None, n)]

\* the call parse_one_node(n, graph, parent_object, incoming_state,
\* parent_incomplete_triples) up to the recursion into the children, for an
\* element with RDFa attributes
VisitAs(a, n, parent_object, incoming, pit) ==
    LET relrev == a.rel # <<>> \/ a.rev # <<>>
        fresh == BNodeOf(nextBNode)
        \* getURI returns None for an illegal CURIE
        about == IF "about" \in a.malformed THEN None ELSE AboutURI(n)
        resource == IF "resource" \in a.malformed THEN None ELSE ResourceURI(n)
        illegal == (IF a.about /\ "about" \in a.malformed THEN 1 ELSE 0)
                   + (IF a.resource /\ "resource" \in a.malformed
                         /\ (relrev \/ ~a.about) THEN 1 ELSE 0)
        own == IF relrev
               THEN IF a.about THEN about
                    ELSE IF a.typeof THEN fresh ELSE None
               ELSE IF a.about THEN about
                    ELSE IF a.resource THEN resource
                    ELSE IF a.typeof THEN fresh ELSE None
        next1 == IF own = fresh THEN nextBNode + 1 ELSE nextBNode
        current_subject == IF own = None THEN parent_object ELSE own
        current_object ==
            IF relrev
            THEN IF a.resource THEN resource ELSE None
            ELSE current_subject
        \* in the branch without @rel/@rev current_object is still None when
        \* setting_subject is computed
        setting_subject == relrev /\ current_object # None
        new_collection == own # None \/ states[incoming].setting_subject
        scope == IF new_collection THEN n ELSE states[incoming].scope
        listMode == Version11 /\ a.inlist
        rel == SelectSeq(a.rel, NotBlank)
        rev == SelectSeq(a.rev, NotBlank)
        blank == Len(a.rel) - Len(rel) + Len(a.rev) - Len(rev)
        typeAdds == IF a.typeof
                    THEN <<Add(current_subject, rdf_type, TypeURI, n, "enter", 0)>>
                    ELSE <<>>
        relProps == [i \in 1..Len(rel) |-> PredURI(rel[i])]
        relAdds == RelAdds(n, current_subject, relProps, current_object, listMode)
        revAdds == IF current_object # None
                   THEN [i \in 1..Len(rev) |->
                            Add(current_object, PredURI(rev[i]), current_subject,
                                n, "enter", 0)]
                   ELSE <<>>
        relIncomplete ==
            RelIncomplete(n, current_subject, relProps, current_object, listMode)
        revIncomplete ==
            IF current_object # None THEN <<>>
            ELSE [i \in 1..Len(rev) |->
                     Incomplete(None, PredURI(rev[i]), current_subject, n)]
        \* generate_literal: the literal, and a triple for each value of
        \* @property up to the first blank node, whose warning uses a name
        \* that is not defined
        object == IF a.xml \/ (~Version11 /\ childNodes(n) # <<>>)
                  THEN XMLLiteralOf(n) ELSE LiteralOf(n)
        props == a.properties
        blanks == {i \in 1..Len(props) : IsBlankPred(props[i])}
        upto == IF blanks = {} THEN Len(props)
                ELSE (CHOOSE i \in blanks : \A j \in blanks : i <= j) - 1
        literalAdds ==
            [i \in 1..upto |->
                Add(current_subject, PredURI(props[i]), object, n, "enter", 0)]
        raised == IF blanks = {} THEN "" ELSE "NameError"
    IN [state |-> [setting_subject |-> setting_subject, scope |-> scope],
        listed |-> IF listMode /\ current_object # None THEN rel ELSE <<>>,
        adds |-> typeAdds \o relAdds \o revAdds \o literalAdds,
        warnings |-> [i \in 1..illegal |->
                         [type |-> "error", class |-> "Illegal CURIE",
                          node |-> n]]
                     \o [i \in 1..blank |->
                         [type |-> "warning", class |-> "IncorrectBlankNodeUsage",
                          node |-> n]],
        raised |-> raised,
        nextBNode |-> IF current_object = None /\ raised = ""
                      THEN next1 + 1 ELSE next1,
        locals |->
            [called |-> TRUE, skipped |-> FALSE, returned |-> FALSE,
             parent_object |-> parent_object, incoming |-> incoming,
             parent_incomplete_triples |-> pit,
             current_subject |-> current_subject,
             current_object |-> current_object,
             new_collection |-> new_collection,
             incomplete_triples |-> relIncomplete \o revIncomplete,
             object_to_children |->
                 IF current_object = None THEN BNodeOf(next1)
                 ELSE current_object]]

Visit(n, parent_object, incoming, pit) ==
    VisitAs(attrs[n], n, parent_object, incoming, pit)

\* the same call for an element without RDFa attributes: the children get
\* what this call got
Skip(n, parent_object, incoming, pit) ==
    [state |-> ExecutionContext(incoming),
     listed |-> <<>>, adds |-> <<>>, warnings |-> <<>>, raised |-> "",
     nextBNode |-> nextBNode,
     locals |->
        [called |-> TRUE, skipped |-> TRUE, returned |-> FALSE,
         parent_object |-> parent_object, incoming |-> incoming,
         parent_incomplete_triples |-> pit,
         current_subject |-> None, current_object |-> None,
         new_collection |-> FALSE,
         incomplete_triples |-> pit,
         object_to_children |-> parent_object]]

Top == stack[Len(stack)]
Pop == SubSeq(stack, 1, Len(stack) - 1)

\* what the call in progress hands to the call for its next child;
\* graph_from_DOM (node 0) calls parse_one_node(topElement, default_graph,
\* None, state, [])
ObjectForChild(f) ==
    IF f.node = 0 THEN None ELSE locals[f.node].object_to_children
IncompleteForChild(f) ==
    IF f.node = 0 THEN <<>> ELSE locals[f.node].incomplete_triples

\* an exception that nothing catches ends every call in progress, and with
\* them graph_from_DOM
Raise(exception, n) ==
    /\ stack' = <<>>
    /\ dom' = [outcome |-> "raised", exception |-> exception, at |-> n,
               graph |-> {}]

\* the next child of the call in progress is entered: its state is built, its
\* subject and object are set, its triples and incomplete triples are made
Enter ==
    /\ stack # <<>>
    /\ Top.todo # <<>>
    /\ LET n == Head(Top.todo)
           v == IF has_rdfa_attributes(n)
                THEN Visit(n, ObjectForChild(Top), Top.node, IncompleteForChild(Top))
                ELSE Skip(n, ObjectForChild(Top), Top.node, IncompleteForChild(Top))
       IN IF ConstructionFails(n)
          THEN /\ Raise("FailedProfile", n)
               /\ UNCHANGED <<states, locals, list_mapping, graph,
                              processor_graph, nextBNode>>
          ELSE /\ states' = [states EXCEPT ![n] = v.state]
               /\ locals' = [locals EXCEPT ![n] = v.locals]
               /\ list_mapping' =
                     [list_mapping EXCEPT ![v.state.scope] =
                         add_to_list_mapping(
                             IF v.locals.new_collection THEN EmptyMapping ELSE @,
                             v.listed, v.locals.current_object)]
               /\ graph' = graph \o v.adds
               /\ processor_graph' = processor_graph \o v.warnings
               /\ nextBNode' = v.nextBNode
               /\ IF v.raised # ""
                  THEN Raise(v.raised, n)
                  ELSE /\ stack' = Append(
                              [stack EXCEPT ![Len(stack)].todo = Tail(@)],
                              [node |-> n, todo |-> childNodes(n)])
                       /\ UNCHANGED dom
    /\ UNCHANGED <<parentOf, attrs, source>>

IsSentinel(t) == t.s = None /\ t.o = None
NotSentinel(t) == ~IsSentinel(t)

\* incoming_state.add_to_list_mapping(p, current_subject) for the hanging
\* @rel of a list
RECURSIVE MergeSentinels(_, _, _)
MergeSentinels(mapping, ts, current_subject) ==
    IF ts = <<>> THEN mapping
    ELSE MergeSentinels(
             add_to_list_mapping(mapping, <<PredName(Head(ts).p)>>, current_subject),
             Tail(ts), current_subject)

\* a plausible slip: the empty slot is filled with the parent's object
Completed_ParentObject(n, ts, current_subject) ==
    [i \in 1..Len(ts) |->
        Add(IF ts[i].s = None THEN locals[n].parent_object ELSE ts[i].s,
            ts[i].p,
            IF ts[i].o = None THEN locals[n].parent_object ELSE ts[i].o,
            n, "return", ts[i].origin)]

\* for (s,p,o) in parent_incomplete_triples : ... graph.add((s,p,o))
Completed(n, ts, current_subject) ==
    [i \in 1..Len(ts) |->
        Add(IF ts[i].s = None THEN current_subject ELSE ts[i].s,
            ts[i].p,
            IF ts[i].o = None THEN current_subject ELSE ts[i].o,
            n, "return", ts[i].origin)]

\* the orders in which "for prop in state.list_mapping" can go
KeyOrders(keys) ==
    {s \in [1..Cardinality(keys) -> keys] :
        \A i, j \in 1..Cardinality(keys) : s[i] = s[j] => i = j}

RECURSIVE TotalLen(_, _)
TotalLen(props, mapping) ==
    IF props = <<>> THEN 0
    ELSE Len(mapping[Head(props)]) + TotalLen(Tail(props), mapping)

\* a plausible slip: the blank nodes of the first list are used again for
\* the next one
RECURSIVE ListTriples_SharedHeads(_, _, _, _, _)
ListTriples_SharedHeads(n, current_subject, props, mapping, first) ==
    IF props = <<>> THEN <<>>
    ELSE LET r == mapping[Head(props)]
             heads == [i \in 1..Len(r) |-> BNodeOf(first + i - 1)]
         IN [i \in 1..Len(r) |-> Add(heads[i], rdf_first, r[i], n, "list", 0)]
            \o [i \in 1..(Len(r) - 1) |->
                   Add(heads[i], rdf_rest, heads[i + 1], n, "list", 0)]
            \o <<Add(heads[Len(r)], rdf_rest, rdf_nil, n, "list", 0),
                 Add(current_subject, PredURI(Head(props)), heads[1], n, "list", 0)>>
            \o ListTriples_SharedHeads(n, current_subject, Tail(props), mapping, first)

\* "Generate the lists, if any": for each prop, a BNode() for each value,
\* rdf:first and rdf:rest triples, rdf:nil at the end, and the head as the
\* object of (current_subject, prop, head)
RECURSIVE ListTriples(_, _, _, _, _)
ListTriples(n, current_subject, props, mapping, first) ==
    IF props = <<>> THEN <<>>
    ELSE LET r == mapping[Head(props)]
             heads == [i \in 1..Len(r) |-> BNodeOf(first + i - 1)]
         IN [i \in 1..Len(r) |-> Add(heads[i], rdf_first, r[i], n, "list", 0)]
            \o [i \in 1..(Len(r) - 1) |->
                   Add(heads[i], rdf_rest, heads[i + 1], n, "list", 0)]
            \o <<Add(heads[Len(r)], rdf_rest, rdf_nil, n, "list", 0),
                 Add(current_subject, PredURI(Head(props)), heads[1], n, "list", 0)>>
            \o ListTriples(n, current_subject, Tail(props), mapping, first + Len(r))

\* the call in progress has walked its children: it completes the incomplete
\* triples it was given, generates its lists and returns
Return ==
    /\ stack # <<>>
    /\ Top.todo = <<>>
    /\ Top.node # 0
    /\ LET n == Top.node
           l == locals[n]
           pit == IF l.skipped THEN <<>> ELSE l.parent_incomplete_triples
           merged == [list_mapping EXCEPT ![states[l.incoming].scope] =
                         MergeSentinels(@, SelectSeq(pit, IsSentinel),
                                        l.current_subject)]
           own == merged[states[n].scope]
           keys == {p \in Preds : own[p] # <<>>}
           generate == ~l.skipped /\ Version11 /\ l.new_collection /\ keys # {}
       IN \E props \in (IF generate THEN KeyOrders(keys) ELSE {<<>>}) :
             /\ graph' = graph
                   \o Completed(n, SelectSeq(pit, NotSentinel), l.current_subject)
                   \o ListTriples(n, l.current_subject, props, own, nextBNode)
             /\ nextBNode' = nextBNode + TotalLen(props, own)
             /\ list_mapping' = merged
             /\ locals' = [locals EXCEPT ![n].returned = TRUE]
             /\ stack' = Pop
    /\ UNCHANGED <<parentOf, attrs, states, processor_graph, dom, source>>

-----------------------------------------------------------------------------
(* pyRdfa.graph_from_DOM and pyRdfa.graph_from_source *)

Triples(adds) == {[s |-> adds[i].s, p |-> adds[i].p, o |-> adds[i].o] : i \in 1..Len(adds)}
Records(recs) == {recs[i] : i \in 1..Len(recs)}
IsErrorRecord(r) == "type" \in DOMAIN r /\ r.type = "error"

\* graph_from_DOM up to the call of parse_one_node for the top element: the
\* initial state is constructed
graph_from_DOM_Start ==
    /\ dom.outcome = ""
    /\ stack = <<>>
    /\ states[0] = NoState
    /\ IF ConstructionFails(Root)
       THEN /\ Raise("FailedProfile", Root)
            /\ UNCHANGED states
       ELSE /\ states' = [states EXCEPT ![0] = [setting_subject |-> FALSE, scope |-> 0]]
            /\ stack' = <<[node |-> 0, todo |-> <<Root>>]>>
            /\ UNCHANGED dom
    /\ UNCHANGED <<parentOf, attrs, locals, list_mapping, graph, processor_graph,
                   source, nextBNode>>

\* graph_from_DOM after parse_one_node has returned: the default graph is
\* copied to the result, the processor graph too if the options ask for it,
\* and the processor graph is reset
graph_from_DOM_End ==
    /\ stack # <<>>
    /\ Top.node = 0
    /\ Top.todo = <<>>
    /\ \E output_processor_graph \in BOOLEAN :
          dom' = [outcome |-> "returned", exception |-> "", at |-> 0,
                  graph |-> Triples(graph) \cup
                            (IF output_processor_graph
                             THEN Records(processor_graph) ELSE {})]
    /\ processor_graph' = <<>>
    /\ stack' = <<>>
    /\ UNCHANGED <<parentOf, attrs, states, locals, list_mapping, graph, source,
                   nextBNode>>

\* graph_from_source around its call of graph_from_DOM: the graph is handed
\* on; "except Exception" hands the exception to sys.excepthook and returns
\* copyErrors(graph, self.options)
graph_from_source_End ==
    /\ dom.outcome # ""
    /\ source.outcome = ""
    /\ IF dom.outcome = "returned"
       THEN /\ source' = dom
            /\ UNCHANGED processor_graph
       ELSE /\ \E output_processor_graph \in BOOLEAN :
                  source' = [outcome |-> "returned", exception |-> "", at |-> 0,
                             graph |-> IF output_processor_graph
                                       THEN Records(processor_graph) ELSE {}]
            /\ processor_graph' = <<>>
    /\ UNCHANGED <<parentOf, attrs, stack, states, locals, list_mapping, graph,
                   dom, nextBNode>>

\* a document, and a process that has loaded the modules
InitWalk ==
    /\ parentOf \in Trees
    /\ attrs \in {a \in [Nodes -> Elements \cup RootElements] :
                    /\ a[Root] \in RootElements
                    /\ \A n \in Nodes \ {Root} : a[n] \in Elements}
    /\ stack = <<>>
    /\ states = [n \in 0..MaxNodes |-> NoState]
    /\ locals = [n \in Nodes |-> NotCalled]
    /\ list_mapping = [n \in 0..MaxNodes |-> EmptyMapping]
    /\ graph = <<>>
    /\ processor_graph = <<>>
    /\ dom = NoResult
    /\ source = NoResult
    /\ rdfa_version \in Versions
    /\ ns = EmptyDict
    /\ terms = EmptyDict
    /\ default_term_uri = NoVocab
    /\ InitRegistry
    /\ NoObjects
    /\ CacheIdle

NextWalk ==
    /\ \/ graph_from_DOM_Start
       \/ Enter
       \/ Return
       \/ graph_from_DOM_End
       \/ graph_from_source_End
    /\ UNCHANGED <<cacheVars, guardVars, objectVars, rdfa_version, ns, terms,
                   default_term_uri, bnodes, doc, handles, ncalls, call>>

SpecWalk == InitWalk /\ [][NextWalk]_vars

\* documents with illegal CURIEs, XML literals and blank nodes among the
\* values of an attribute
RecoverElements == {Plain, Typeof, AboutProperty, RelHanging, BadAbout,
                    BadAboutTypeof, BadAboutResource, BadAboutProperty,
                    RelBadResource, PropertyXML, RelBlankMixed, RevBlankMixed,
                    PropertyBlank}

InitRecover ==
    /\ parentOf \in Trees
    /\ attrs \in {a \in [Nodes -> RecoverElements \cup {About}] :
                    /\ a[Root] = About
                    /\ \A n \in Nodes \ {Root} : a[n] \in RecoverElements}
    /\ stack = <<>>
    /\ states = [n \in 0..MaxNodes |-> NoState]
    /\ locals = [n \in Nodes |-> NotCalled]
    /\ list_mapping = [n \in 0..MaxNodes |-> EmptyMapping]
    /\ graph = <<>>
    /\ processor_graph = <<>>
    /\ dom = NoResult
    /\ source = NoResult
    /\ rdfa_version \in Versions
    /\ ns = EmptyDict
    /\ terms = EmptyDict
    /\ default_term_uri = NoVocab
    /\ InitRegistry
    /\ NoObjects
    /\ CacheIdle

SpecRecover == InitRecover /\ [][NextWalk]_vars

-----------------------------------------------------------------------------
(* Several documents processed one after the other with the same options *)

SeriesElements == {Plain, BadAbout, PropertyBlank}

Documents ==
    {[parentOf |-> par, attrs |-> a] :
        par \in Trees,
        a \in {x \in [Nodes -> SeriesElements \cup {About}] :
                  /\ x[Root] = About
                  /\ \A n \in Nodes \ {Root} : x[n] \in SeriesElements}}

\* the caller has its answer (a graph or an exception) and calls
\* graph_from_DOM for the next document on the same pyRdfa object: the
\* options and their processor graph are those of the call before
AnotherDocument ==
    /\ dom.outcome # ""
    /\ doc < MaxDocs
    /\ doc' = doc + 1
    /\ \E d \in Documents :
          /\ parentOf' = d.parentOf
          /\ attrs' = d.attrs
    /\ stack' = <<>>
    /\ states' = [n \in 0..MaxNodes |-> NoState]
    /\ locals' = [n \in Nodes |-> NotCalled]
    /\ list_mapping' = [n \in 0..MaxNodes |-> EmptyMapping]
    /\ graph' = <<>>
    /\ dom' = NoResult
    /\ source' = NoResult
    /\ UNCHANGED <<processor_graph, cacheVars, guardVars, objectVars,
                   rdfa_version, ns, terms, default_term_uri, bnodes, nextBNode,
                   handles, ncalls, call>>

InitSeries ==
    /\ \E d \in Documents :
          /\ parentOf = d.parentOf
          /\ attrs = d.attrs
    /\ stack = <<>>
    /\ states = [n \in 0..MaxNodes |-> NoState]
    /\ locals = [n \in Nodes |-> NotCalled]
    /\ list_mapping = [n \in 0..MaxNodes |-> EmptyMapping]
    /\ graph = <<>>
    /\ processor_graph = <<>>
    /\ dom = NoResult
    /\ source = NoResult
    /\ rdfa_version \in Versions
    /\ ns = EmptyDict
    /\ terms = EmptyDict
    /\ default_term_uri = NoVocab
    /\ InitRegistry
    /\ NoObjects
    /\ CacheIdle

NextSeries == NextWalk \/ AnotherDocument

SpecSeries == InitSeries /\ [][NextSeries]_vars

-----------------------------------------------------------------------------
(* TermOrCurie.__init__: the prefix table of the state of an element *)

FooURI == <<"http://example.org/foo#">>
OtherURI == <<"http://example.org/other#">>
Base == URIRef(<<"http://doc/">>)
Thing == URIRef(<<"http://example.org/thing">>)

\* one declaration: xmlns:prefix="uri", or the pair "prefix: uri" of @prefix
Decl(prefix, uri) == [prefix |-> prefix, uri |-> uri]

\* the loop over the xmlns: attributes: a later one overwrites an earlier one
RECURSIVE XmlnsDict(_, _)
XmlnsDict(dict, xmlns) ==
    IF xmlns = <<>> THEN dict
    ELSE LET prefix == Head(xmlns).prefix
             pr == IF Version11 THEN Lower(prefix) ELSE prefix
         IN IF prefix = <<>> \/ prefix = <<"_">> \/ FirstColon(prefix) # 0
            THEN XmlnsDict(dict, Tail(xmlns))
            ELSE XmlnsDict(Put(dict, pr, Head(xmlns).uri), Tail(xmlns))

\* the loop over the pairs of @prefix: "if real_prefix not in dict"
RECURSIVE PrefixDict(_, _)
PrefixDict(dict, pairs) ==
    IF pairs = <<>> THEN dict
    ELSE LET prefix == Head(pairs).prefix
             real_prefix == Lower(prefix)
         IN IF /\ prefix # <<>>
               /\ prefix # <<"_">>
               /\ ncname(prefix)
               /\ real_prefix \notin DOMAIN dict
            THEN PrefixDict(Put(dict, real_prefix, Head(pairs).uri), Tail(pairs))
            ELSE PrefixDict(dict, Tail(pairs))

\* the local dictionary of an element: xmlns:, then @prefix from RDFa 1.1 on
LocalDict(e) ==
    IF Version11
    THEN PrefixDict(XmlnsDict(EmptyDict, e.xmlns), e.prefix)
    ELSE XmlnsDict(EmptyDict, e.xmlns)

\* a plausible slip: local declarations replace the inherited table
TermOrCurieNs_LocalOnly(top, inherited, dict) ==
    IF DOMAIN dict = {} /\ ~top THEN inherited ELSE dict

\* self.ns: the inherited table itself when nothing is declared locally, a
\* copy of it with the local declarations on top otherwise
TermOrCurieNs(top, inherited, dict) ==
    IF DOMAIN dict = {} /\ ~top THEN inherited
    ELSE IF ~top
    THEN [k \in DOMAIN inherited \cup DOMAIN dict |->
             IF k \in DOMAIN dict THEN dict[k] ELSE inherited[k]]
    ELSE dict

NoDecls    == [xmlns |-> <<>>, prefix |-> <<>>]
XmlnsFoo   == [xmlns |-> <<Decl(<<"a">>, FooURI)>>, prefix |-> <<>>]
PrefixFoo  == [xmlns |-> <<>>, prefix |-> <<Decl(<<"a">>, FooURI)>>]
PrefixUpper == [xmlns |-> <<>>, prefix |-> <<Decl(<<"A">>, OtherURI)>>]
XmlnsUpper == [xmlns |-> <<Decl(<<"A">>, OtherURI)>>, prefix |-> <<>>]
XmlnsOther == [xmlns |-> <<Decl(<<"b">>, OtherURI)>>, prefix |-> <<>>]

PrefixDecls == {NoDecls, XmlnsFoo, PrefixFoo, PrefixUpper, XmlnsUpper, XmlnsOther}

\* the @rel of an element, with or without a resource attribute
Rel(val, resource) == [val |-> val, resource |-> resource]
NoRel == Rel(<<>>, FALSE)
RelAttrs == {NoRel,
             Rel(<<"a", ":", "b">>, TRUE),
             Rel(<<"a", ":", "b">>, FALSE),
             Rel(<<"A", ":", "b">>, TRUE)}

\* state.getURI("rel") for one value: the identifiers it resolves to
getURI_rel(val) ==
    LET r == CURIE_to_URI(val).res
    IN IF r = None THEN <<>> ELSE <<r>>

IsNotBNode(u) == u.k # "BNode"

\* the ExecutionContext of the next element of the path is constructed: its
\* TermOrCurie builds the prefix table
Construct(e, r) ==
    /\ Len(stack) < MaxDepth
    /\ stack # <<>> => Top.done
    /\ LET table == TermOrCurieNs(stack = <<>>, ns, LocalDict(e))
       IN /\ ns' = table
          /\ stack' = Append(stack, [node |-> Len(stack) + 1, decl |-> e,
                                     rel |-> r, ns |-> table, done |-> FALSE,
                                     incomplete_triples |-> <<>>])
    /\ UNCHANGED <<graph, bnodes, nextBNode, call>>

ConstructStep == \E e \in PrefixDecls, r \in RelAttrs : Construct(e, r)

\* parse_one_node for the element: it has neither @about nor @typeof, so the
\* subject is the parent's object, the document base; the values of @rel are
\* resolved with the table of the element's state
ProcessRel ==
    /\ stack # <<>>
    /\ ~Top.done
    /\ LET n == Top.node
           r == CURIE_to_URI(Top.rel.val)
           props == SelectSeq(getURI_rel(Top.rel.val), IsNotBNode)
           current_subject == Base
           current_object == IF Top.rel.resource THEN Thing ELSE None
       IN /\ graph' = graph \o RelAdds(n, current_subject, props,
                                       current_object, FALSE)
          /\ stack' = [stack EXCEPT
                ![Len(stack)].done = TRUE,
                ![Len(stack)].incomplete_triples =
                    RelIncomplete(n, current_subject, props, current_object,
                                  FALSE)]
          /\ call' = [op |-> "CURIE_to_URI", val |-> Top.rel.val, res |-> r.res]
          /\ bnodes' = r.bnodes
          /\ nextBNode' = r.next
    /\ UNCHANGED ns

InitPrefix ==
    /\ CacheIdle
    /\ WalkIdle
    /\ rdfa_version \in Versions
    /\ ns = EmptyDict
    /\ terms = EmptyDict
    /\ default_term_uri = NoVocab
    /\ InitRegistry
    /\ NoObjects

NextPrefix ==
    /\ ConstructStep \/ ProcessRel
    /\ UNCHANGED <<cacheVars, guardVars, objectVars, parentOf, attrs, states,
                   locals, list_mapping, processor_graph, dom, source,
                   rdfa_version, terms, default_term_uri, doc, handles, ncalls>>

SpecPrefix == InitPrefix /\ [][NextPrefix]_vars

-----------------------------------------------------------------------------
(* TermOrCurie.__init__: several local declarations of one prefix *)

LocalPrefixes == {<<"a">>, <<"A">>, <<"b">>}
LocalURIs == {FooURI, OtherURI}
OneDecl == {Decl(k, u) : k \in LocalPrefixes, u \in LocalURIs}

\* the xmlns: attributes of an element (no two of the same name) and the
\* pairs of its @prefix, in the order of the document
XmlnsLists ==
    {<<>>} \cup {<<d>> : d \in OneDecl}
    \cup {q \in {<<d, e>> : d \in OneDecl, e \in OneDecl} :
             q[1].prefix # q[2].prefix}
PrefixLists ==
    {<<>>} \cup {<<d>> : d \in OneDecl} \cup {<<d, e>> : d \in OneDecl, e \in OneDecl}
LocalDecls == {[xmlns |-> x, prefix |-> q] : x \in XmlnsLists, q \in PrefixLists}

\* the ExecutionContext of the top element is constructed
ConstructTop == \E e \in LocalDecls : stack = <<>> /\ Construct(e, NoRel)

NextLocal ==
    /\ ConstructTop
    /\ UNCHANGED <<cacheVars, guardVars, objectVars, parentOf, attrs, states,
                   locals, list_mapping, processor_graph, dom, source,
                   rdfa_version, terms, default_term_uri, doc, handles, ncalls>>

SpecLocal == InitPrefix /\ [][NextLocal]_vars

-----------------------------------------------------------------------------
(* The dictionaries of the states along a path of elements *)

XHTML_PREFIX == <<"x", "h", "v">>

\* the class that holds the prefix table: TermOrCurie (TermOrCurie.py), or
\* the ExecutionContext itself (State.py, RDFa 1.0 only)
Builders == {"TermOrCurie", "ExecutionContext"}

\* recursive_vocab: what the @profile of an element declares
Vocabulary(t, n) == [terms |-> t, ns |-> n]
NoProfile == Vocabulary(EmptyDict, EmptyDict)
VocabResults ==
    {Vocabulary(t, n) :
        t \in {EmptyDict, [k \in {<<"a">>} |-> <<"T1">>]},
        n \in {EmptyDict, [k \in {<<"b">>} |-> FooURI]}}

XmlnsXhv == [xmlns |-> <<Decl(XHTML_PREFIX, OtherURI)>>, prefix |-> <<>>]
TableDecls == PrefixDecls \cup {XmlnsXhv}

\* dict: the prefixes of the @profile, then xmlns:, then @prefix
LocalDictOver(v, e) ==
    IF Version11
    THEN PrefixDict(XmlnsDict(v.ns, e.xmlns), e.prefix)
    ELSE XmlnsDict(v.ns, e.xmlns)

\* a plausible slip: the local declarations are written into the inherited
\* dictionary
SelfNs_InPlace(top, inherited, dict, fresh, h) ==
    IF DOMAIN dict = {} /\ ~top THEN [id |-> inherited, heap |-> h]
    ELSE IF top THEN [id |-> fresh, heap |-> [h EXCEPT ![fresh] = dict]]
    ELSE [id |-> inherited,
          heap |-> [h EXCEPT ![inherited] = TermOrCurieNs(FALSE, @, dict)]]

\* self.ns: the dictionary object it is, and the objects after the writes
SelfNs(top, inherited, dict, fresh, h) ==
    IF DOMAIN dict = {} /\ ~top THEN [id |-> inherited, heap |-> h]
    ELSE IF top THEN [id |-> fresh, heap |-> [h EXCEPT ![fresh] = dict]]
    ELSE [id |-> fresh,
          heap |-> [h EXCEPT ![fresh] = TermOrCurieNs(FALSE, h[inherited], dict)]]

\* self.terms: a new dictionary at the top and when the @profile declares
\* terms, the inherited dictionary itself otherwise
SelfTerms(top, inherited, vterms, fresh, h) ==
    IF top THEN [id |-> fresh, heap |-> [h EXCEPT ![fresh] = vterms]]
    ELSE IF DOMAIN vterms = {} THEN [id |-> inherited, heap |-> h]
    ELSE [id |-> fresh,
          heap |-> [h EXCEPT ![fresh] = TermOrCurieNs(FALSE, h[inherited], vterms)]]

\* State.py: "see if the xhtml core vocabulary has been set"; if not, it is
\* entered into self.ns
XhtmlPrefix(id, h) ==
    IF \E k \in DOMAIN h[id] : h[id][k] = XHTML_URI THEN h
    ELSE IF XHTML_PREFIX \notin DOMAIN h[id]
    THEN [h EXCEPT ![id] = Put(@, XHTML_PREFIX, XHTML_URI)]
    ELSE [h EXCEPT ![id] = Put(@, XHTML_PREFIX \o <<"_">>, XHTML_URI)]

\* the state of the next element of the path is constructed by builder b
\* from the declarations e of the element and the declarations v of its
\* @profile
ConstructTables(b, e, v) ==
    LET top == stack = <<>>
        parent == IF top THEN [ns |-> 0, terms |-> 0] ELSE Top
        n == SelfNs(top, parent.ns, LocalDictOver(v, e), 2 * Len(stack) + 1, heap)
        t == IF b = "TermOrCurie"
             THEN SelfTerms(top, parent.terms, v.terms, 2 * Len(stack) + 2, n.heap)
             ELSE [id |-> 0, heap |-> XhtmlPrefix(n.id, n.heap)]
    IN /\ Len(stack) < MaxDepth
       /\ ~top => b = stack[1].builder
       /\ b = "ExecutionContext" => ~Version11
       /\ (b = "ExecutionContext" \/ ~Version11) => v = NoProfile
       /\ heap' = t.heap
       /\ stack' = Append(stack,
             [node |-> Len(stack) + 1, builder |-> b, decl |-> e, vocab |-> v,
              ns |-> n.id, terms |-> t.id,
              ns_was |-> t.heap[n.id],
              terms_was |-> IF t.id = 0 THEN EmptyDict ELSE t.heap[t.id]])

ConstructTablesStep ==
    \E b \in Builders, e \in TableDecls, v \in VocabResults : ConstructTables(b, e, v)

InitTables ==
    /\ CacheIdle
    /\ WalkIdle
    /\ rdfa_version \in Versions
    /\ ns = EmptyDict
    /\ terms = EmptyDict
    /\ default_term_uri = NoVocab
    /\ InitRegistry
    /\ NoThreads
    /\ NoIndexFile
    /\ heap = [o \in Objects |-> EmptyDict]
    /\ stored = [u \in URIs |-> NoTuple]
    /\ instance = NoTuple
    /\ NoVocabGraph

NextTables ==
    /\ ConstructTablesStep
    /\ UNCHANGED <<resolveVars, cacheVars, guardVars, parentOf, attrs, states,
                   locals, list_mapping, graph, processor_graph, dom, source,
                   threads, index_file, dump, observed, stored, instance,
                   vocab_graph, extraction>>

SpecTables == InitTables /\ [][NextTables]_vars

-----------------------------------------------------------------------------
(* Vocabulary documents that refer to vocabulary documents *)

\* the class that resolves the @profile references of a document
Readers == {"ProfileRead", "CachedProfile"}

\* the document the caller handed over, as opposed to a vocabulary document
Host == "host"

\* state.getURI("profile") of a document, in the order of the attribute
ProfileLists == {<<>>} \cup {<<u>> : u \in URIs}
                \cup {<<u, v>> : u \in URIs, v \in URIs}

RECURSIVE Reverse(_)
Reverse(q) == IF q = <<>> THEN <<>> ELSE Append(Reverse(Tail(q)), Head(q))

\* a parse in progress: the reader, the URI of the document, and the
\* references still to be resolved (profs.reverse())
Frame(reader, uri, profs) ==
    [reader |-> reader, uri |-> uri, todo |-> Reverse(profs)]

\* the vocabulary documents that are being fetched and parsed
InFlight == {stack[i].uri : i \in 1..Len(stack)} \ {Host}

\* a plausible slip: nothing is ever found on the stack
InProfileStack_Never(prof) == FALSE

\* prof in ProfileRead.profile_stack
InProfileStack(prof) == \E i \in 1..Len(profile_stack) : profile_stack[i] = prof

\* ProfileRead.profile_stack.pop()
PopProfile(ps) == SubSeq(ps, 1, Len(ps) - 1)

Request(uri, path, fetched, raised, result) ==
    [NoResolve EXCEPT !.uri = uri, !.path = path, !.fetched = fetched,
                      !.raised = raised, !.result = result]

\* the reference at the head of the list is done with
Continue == [stack EXCEPT ![Len(stack)].todo = Tail(@)]

\* graph_from_source is called for a document; its @profile references are
\* resolved by one of the two readers
StartDocument ==
    /\ stack = <<>>
    /\ ncalls < MaxDocs
    /\ ncalls' = ncalls + 1
    /\ \E reader \in Readers, profs \in ProfileLists :
          stack' = <<Frame(reader, Host, profs)>>
    /\ UNCHANGED <<profile_stack, profile_cache, local_cache, fetches, last>>

\* the reference is answered without a fetch: by "continue" for a profile on
\* the stack and from profile_cache in ProfileRead, from local_cache (the
\* stake or the stored declarations) in CachedProfile
Answer ==
    /\ stack # <<>>
    /\ Top.todo # <<>>
    /\ LET prof == Head(Top.todo)
       IN IF Top.reader = "ProfileRead"
          THEN /\ InProfileStack(prof) \/ profile_cache[prof] # NoEntry
               /\ last' = IF InProfileStack(prof)
                          THEN Request(prof, "profile_stack", 0, "", EMPTY)
                          ELSE Request(prof, "profile_cache", 0, "",
                                       profile_cache[prof])
          ELSE /\ local_cache[prof] # NoEntry
               /\ last' = Request(prof, "local_cache", 0, "", local_cache[prof])
    /\ stack' = Continue
    /\ UNCHANGED <<profile_stack, profile_cache, local_cache, fetches, ncalls>>

NeedsFetch(reader, prof) ==
    IF reader = "ProfileRead"
    THEN ~InProfileStack(prof) /\ profile_cache[prof] = NoEntry
    ELSE local_cache[prof] = NoEntry

\* the reference is fetched and the document is an RDFa document: it is
\* parsed by a new processor, inside the call that fetched it
Fetch ==
    /\ stack # <<>>
    /\ Top.todo # <<>>
    /\ Len(stack) < MaxNesting
    /\ LET prof == Head(Top.todo)
       IN /\ NeedsFetch(Top.reader, prof)
          /\ fetches' = [fetches EXCEPT ![prof] = @ + 1]
          /\ IF Top.reader = "ProfileRead"
             THEN /\ profile_stack' = Append(profile_stack, prof)
                  /\ UNCHANGED local_cache
             ELSE /\ local_cache' = Stake(prof)
                  /\ UNCHANGED profile_stack
          /\ \E profs \in ProfileLists :
                stack' = Append(stack, Frame(Top.reader, prof, profs))
          /\ last' = Request(prof, "fetch", 1, "", EMPTY)
    /\ UNCHANGED <<profile_cache, ncalls>>

\* the parse of a fetched document is over, with all references resolved
\* (declarations "new") or cut short by an exception that its
\* graph_from_source caught (no declarations): the call that fetched it stores
\* what the graph declares and goes on with its next reference
Fetched(frames, ps, lc, declarations) ==
    LET f == frames[Len(frames)]
    IN /\ stack' = [SubSeq(frames, 1, Len(frames) - 1)
                       EXCEPT ![Len(frames) - 1].todo = Tail(@)]
       /\ IF f.reader = "ProfileRead"
          THEN /\ profile_cache' = [profile_cache EXCEPT ![f.uri] = declarations]
               /\ profile_stack' = PopProfile(ps)
               /\ local_cache' = lc
          ELSE /\ local_cache' = [lc EXCEPT ![f.uri] = declarations]
               /\ profile_stack' = ps
               /\ UNCHANGED profile_cache
       /\ last' = Request(f.uri, "fetched", 1, "", declarations)

\* the reference cannot be dereferenced: FailedProfile ends the parse in
\* progress; the caller of the host document sees it, the graph_from_source of
\* a vocabulary document catches it
FetchFails ==
    /\ stack # <<>>
    /\ Top.todo # <<>>
    /\ LET prof == Head(Top.todo)
           ps == IF Top.reader = "ProfileRead"
                 THEN Append(profile_stack, prof) ELSE profile_stack
           lc == IF Top.reader = "ProfileRead"
                 THEN local_cache ELSE Stake(prof)
       IN /\ NeedsFetch(Top.reader, prof)
          /\ fetches' = [fetches EXCEPT ![prof] = @ + 1]
          /\ IF Top.uri = Host
             THEN /\ stack' = <<>>
                  /\ profile_stack' = ps
                  /\ local_cache' = lc
                  /\ last' = Request(prof, "fetch", 1, "FailedProfile", EMPTY)
                  /\ UNCHANGED profile_cache
             ELSE Fetched(stack, ps, lc, EMPTY)
    /\ UNCHANGED ncalls

\* all references of the document in progress are resolved
ParseEnds ==
    /\ stack # <<>>
    /\ Top.todo = <<>>
    /\ IF Top.uri = Host
       THEN /\ stack' = <<>>
            /\ UNCHANGED <<profile_stack, profile_cache, local_cache, last>>
       ELSE Fetched(stack, profile_stack, local_cache, "new")
    /\ UNCHANGED <<fetches, ncalls>>

InitGuard ==
    /\ CacheIdle
    /\ WalkIdle
    /\ rdfa_version = "1.1"
    /\ ns = EmptyDict
    /\ terms = EmptyDict
    /\ default_term_uri = NoVocab
    /\ InitRegistry
    /\ NoObjects

NextGuard ==
    /\ \/ StartDocument
       \/ Answer
       \/ Fetch
       \/ FetchFails
       \/ ParseEnds
    /\ UNCHANGED <<rdfa_version, ns, terms, default_term_uri, bnodes, nextBNode,
                   doc, handles, call, now, ticks, run, area, index, files,
                   firstPath, parentOf, attrs, states, locals, list_mapping,
                   graph, processor_graph, dom, source, objectVars>>

\* every call in progress goes on
SpecGuard == InitGuard /\ [][NextGuard]_vars /\ WF_vars(NextGuard)

-----------------------------------------------------------------------------
(* ProfileRead: the dictionaries of an instance and of profile_cache *)

\* the vocabulary documents: each declares one term and one prefix of its
\* own; the first of them declares a default vocabulary too
DeclaresVocabulary(u) == u = "u1"

\* _find_terms: self.terms[str(term)] = ..., self.ns[...] = ... on the
\* dictionaries the instance refers to at that moment
FindTerms(h, self, prof) ==
    [h EXCEPT ![self.terms] = @ \cup {prof}, ![self.ns] = @ \cup {prof}]

\* one pass of the loop over the profiles: st is the instance, the class
\* variable profile_cache and the dictionary objects
ReadProfile(st, prof) ==
    IF InProfileStack(prof) THEN st
    ELSE IF st.cache[prof] # NoTuple
    THEN [st EXCEPT !.self = st.cache[prof]]
    ELSE LET vocabulary == IF DeclaresVocabulary(prof) THEN <<prof>>
                           ELSE st.self.vocabulary
             self == [st.self EXCEPT !.vocabulary = vocabulary]
             h == FindTerms(st.heap, self, prof)
         IN [self |-> self,
             cache |-> [st.cache EXCEPT ![prof] = self],
             heap |-> h,
             stored |-> [st.stored EXCEPT ![prof] =
                            Tuple(h[self.terms], h[self.ns], vocabulary)]]

RECURSIVE ReadProfiles(_, _)
ReadProfiles(st, todo) ==
    IF todo = <<>> THEN st
    ELSE ReadProfiles(ReadProfile(st, Head(todo)), Tail(todo))

\* ProfileRead.__init__(state) for an element whose @profile is profs: two
\* new dictionaries, then the profiles from right to left
ProfileRead_init ==
    /\ ncalls < MaxCalls
    /\ ncalls' = ncalls + 1
    /\ \E profs \in ProfileLists :
          LET self == Tuple(2 * ncalls + 1, 2 * ncalls + 2, NoVocab)
              st == ReadProfiles([self |-> self, cache |-> profile_cache,
                                  heap |-> heap, stored |-> stored],
                                 Reverse(profs))
          IN /\ instance' = st.self
             /\ profile_cache' = st.cache
             /\ heap' = st.heap
             /\ stored' = st.stored

InitProfiles ==
    /\ CacheIdle
    /\ WalkIdle
    /\ rdfa_version = "1.1"
    /\ ns = EmptyDict
    /\ terms = EmptyDict
    /\ default_term_uri = NoVocab
    /\ InitGlobals
    /\ profile_stack = <<>>
    /\ profile_cache = [u \in URIs |-> NoTuple]
    /\ NoThreads
    /\ NoIndexFile
    /\ NoDictionaries
    /\ NoVocabGraph

NextProfiles ==
    /\ ProfileRead_init
    /\ UNCHANGED <<rdfa_version, ns, terms, default_term_uri, bnodes, nextBNode,
                   doc, handles, call, cacheVars, walkVars, profile_stack,
                   threads, index_file, dump, observed, vocab_graph, extraction>>

SpecProfiles == InitProfiles /\ [][NextProfiles]_vars

-----------------------------------------------------------------------------
(* The declarations extracted from a vocabulary graph *)

VocabularyURIs == {"V1", "V2"}
TermLiterals == {<<"a">>, <<"b">>, <<"_">>}
PrefixLiterals == {<<"A">>, <<"_">>}
VocabGraphs ==
    {VocabGraph(v, t, q) : v \in SUBSET VocabularyURIs, t \in SUBSET TermLiterals,
                           q \in SUBSET PrefixLiterals}

more_vocab_URI == "Two or more default vocabularies URIs defined in the profile; ignored"
non_ncname == "Non NCNAME; ignored"

\* _find_terms for "term" and for "prefix": the literals that are NCNAMEs are
\* entered, one warning for each of the others
Found(g) ==
    [terms |-> {t \in g.terms : ncname(t)},
     ns |-> {Lower(q) : q \in {x \in g.prefixes : ncname(x)}},
     rejected |-> Cardinality({t \in g.terms : ~ncname(t)})
                  + Cardinality({q \in g.prefixes : ~ncname(q)})]

Warnings(first, n) == first \o [i \in 1..n |-> non_ncname]

\* ProfileRead.__init__ from "Find the vocabulary first" on: the warnings go
\* to self.state.options
ProfileRead_extract(g) ==
    [reader |-> "ProfileRead", options |-> "Options", raised |-> "",
     vocabulary |-> IF Cardinality(g.voc_defs) = 1 THEN g.voc_defs ELSE {},
     terms |-> Found(g).terms, ns |-> Found(g).ns,
     warnings |-> Warnings(IF Cardinality(g.voc_defs) > 1
                           THEN <<more_vocab_URI>> ELSE <<>>, Found(g).rejected)]

\* CachedProfile._extract_profile_info: an instance has no attribute state,
\* and its options are those the constructor was given, or None
extract_profile_info(g, opts) ==
    IF Cardinality(g.voc_defs) > 1
    THEN [NotExtracted EXCEPT !.reader = "CachedProfile", !.options = opts,
                              !.raised = "AttributeError"]
    ELSE IF Found(g).rejected > 0 /\ opts = "None"
    THEN [NotExtracted EXCEPT !.reader = "CachedProfile", !.options = opts,
                              !.raised = "AttributeError",
                              !.vocabulary = g.voc_defs]
    ELSE [reader |-> "CachedProfile", options |-> opts, raised |-> "",
          vocabulary |-> g.voc_defs,
          terms |-> Found(g).terms, ns |-> Found(g).ns,
          warnings |-> Warnings(<<>>, Found(g).rejected)]

ProfileReadExtracts ==
    /\ extraction = NotExtracted
    /\ extraction' = ProfileRead_extract(vocab_graph)
    /\ UNCHANGED vocab_graph

CachedProfileExtracts ==
    /\ extraction = NotExtracted
    /\ \E opts \in OptionsArgs :
          extraction' = extract_profile_info(vocab_graph, opts)
    /\ UNCHANGED vocab_graph

InitExtract ==
    /\ CacheIdle
    /\ WalkIdle
    /\ rdfa_version = "1.1"
    /\ ns = EmptyDict
    /\ terms = EmptyDict
    /\ default_term_uri = NoVocab
    /\ InitRegistry
    /\ NoThreads
    /\ NoIndexFile
    /\ NoDictionaries
    /\ vocab_graph \in VocabGraphs
    /\ extraction = NotExtracted

NextExtract ==
    /\ ProfileReadExtracts \/ CachedProfileExtracts
    /\ UNCHANGED <<resolveVars, cacheVars, walkVars, guardVars, threads,
                   index_file, dump, observed, heap, stored, instance>>

SpecExtract == InitExtract /\ [][NextExtract]_vars

-----------------------------------------------------------------------------
(* Claims on CURIE and term resolution *)

CurieCallWithNCNamePrefix ==
    /\ call.op = "CURIE_to_URI"
    /\ FirstColon(call.val) > 0
    /\ ncname(SplitPrefix(call.val))

\* C1 as stated: for a value p:l with an NCNAME prefix p, the result is B + l
\* when p is a key of the prefix table bound to B, and null when p is no key
\* of the table.
C1_AsStated ==
    CurieCallWithNCNamePrefix =>
        LET p == SplitPrefix(call.val)
            l == SplitReference(call.val)
        IN /\ (p \in DOMAIN ns => call.res = URIRef(ns[p] \o l))
           /\ (p \notin DOMAIN ns => call.res = None)

\* C1 (amended): for a value p:l with an NCNAME prefix p, let q be p, lower-cased
\* when the RDFa version is 1.1. If l begins with ':' the result is null.
\* Otherwise the result is B + l when q is bound to B, and null when q is not
\* bound.
C1_CurieResolution ==
    CurieCallWithNCNamePrefix =>
        LET p == SplitPrefix(call.val)
            l == SplitReference(call.val)
            q == IF rdfa_version = "1.1" THEN Lower(p) ELSE p
        IN IF Len(l) > 0 /\ l[1] = ":" THEN call.res = None
           ELSE /\ (q \in DOMAIN ns => call.res = URIRef(ns[q] \o l))
                /\ (q \notin DOMAIN ns => call.res = None)

\* a CURIE with an upper-case spelling of a bound prefix and a non-empty
\* reference has been resolved to a URI
C1_Witness ==
    /\ CurieCallWithNCNamePrefix
    /\ SplitPrefix(call.val) # Lower(SplitPrefix(call.val))
    /\ Len(SplitReference(call.val)) > 0
    /\ call.res.k = "URIRef"
    /\ call.res.v = ns[Lower(SplitPrefix(call.val))] \o SplitReference(call.val)

\* C2: a term that is a key of the term table with exactly that spelling
\* resolves to the value bound to that key, also when another key differs from
\* it in letter case only; a value found by the case insensitive scan is
\* returned only when the table has no key with the exact spelling.
C2_ExactTermWins ==
    (call.op = "term_to_URI" /\ ncname(call.val)) =>
        IF call.val \in DOMAIN terms
        THEN call.res = URIRef(terms[call.val])
        ELSE (CaseInsensitiveMatches(call.val) # {}
                => \E k \in CaseInsensitiveMatches(call.val) :
                       call.res = URIRef(terms[k]))

\* a term was resolved that is a key while a key of another case is bound to
\* another value
C2_Witness ==
    /\ call.op = "term_to_URI"
    /\ call.val \in DOMAIN terms
    /\ \E k \in DOMAIN terms :
           k # call.val /\ Lower(k) = Lower(call.val) /\ terms[k] # terms[call.val]
    /\ call.res = URIRef(terms[call.val])

\* C7: within one document, one blank node name always resolves to the same
\* handle, two names resolve to two handles, and the empty name resolves to
\* the reserved handle, which no named blank node has.
C7_BlankNodeIdentity ==
    \A d \in 1..MaxDocs : \A i, j \in 1..Len(handles[d]) :
        /\ (handles[d][i].name = handles[d][j].name
               => handles[d][i].id = handles[d][j].id)
        /\ (handles[d][i].name # handles[d][j].name
               => handles[d][i].id # handles[d][j].id)
        /\ (handles[d][i].name = <<>> => handles[d][i].id = EmptyBNodeId)

\* in one document a name was resolved twice, another name and the empty name
\* once each
C7_Witness ==
    \E d \in 1..MaxDocs : \E i, j, k, e \in 1..Len(handles[d]) :
        /\ i < j
        /\ handles[d][i].name = handles[d][j].name
        /\ handles[d][i].name # <<>>
        /\ handles[d][k].name \notin {<<>>, handles[d][i].name}
        /\ handles[d][e].name = <<>>

\* C8: two documents parsed one after the other never share a blank node: no
\* handle returned in a later parse was returned in an earlier one.
C8_HandlesScopedToOneParse ==
    \A d1, d2 \in 1..MaxDocs :
        d1 < d2 =>
            \A i \in 1..Len(handles[d1]) : \A j \in 1..Len(handles[d2]) :
                handles[d1][i].id # handles[d2][j].id

-----------------------------------------------------------------------------
(* Claims on the vocabulary cache *)

\* C5: within one process run the resolutions of one vocabulary URI make one
\* network fetch between them, however many they are, and none when the first
\* of them found an unexpired entry in the index; a resolution that finds an
\* unexpired index entry makes no fetch.
C5_OneFetchPerRun ==
    /\ \A u \in URIs :
          /\ fetches[u] <= 1
          /\ firstPath[u] # "" =>
                fetches[u] = (IF firstPath[u] = "fresh" THEN 0 ELSE 1)
    /\ last.unexpired => last.fetched = 0

\* a URI resolved twice in one run: fetched by the first resolution, answered
\* from the run time cache by the second
C5_Witness ==
    \E u \in URIs :
        /\ last.uri = u
        /\ last.path = "local_cache"
        /\ firstPath[u] \in {"new", "refresh"}
        /\ fetches[u] = 1

\* C6: a resolution that finds an expired index entry and whose re-fetch
\* fails does not raise, returns what the cached artifact holds, and leaves
\* an index entry that expires one hour from now.
C6_ExpiredFallback ==
    (last.expired /\ last.cached # NoFile
        /\ last.net \in {"unreachable", "unparsable"})
    => /\ last.raised = ""
       /\ last.result = last.cached
       /\ index[last.uri].expires = last.at + OneHour

\* C14: every entry written to the index has an expiration date, and after
\* a fetch that obtained the document it is the date URIOpener gave the
\* response: the Expires header, or one day after the fetch.
C14_ExpiresFromResponse ==
    (last.net = "ok" /\ last.raised = "" /\ area = "writable")
    => /\ index[last.uri] # NoRef
       /\ index[last.uri].expires \in ResponseExpiries(last.at)

C16_ReadOnlyCache ==
    (area = "readonly" /\ last.uri # "" /\ last.path # "local_cache"
        /\ index[last.uri] # NoRef /\ last.at <= index[last.uri].expires
        /\ last.cached # NoFile)
    => /\ last.fetched = 0
       /\ last.result = last.cached

\* C18: when the index entry has expired and the re-fetch obtains the
\* document, the result, the artifact on disk and the run time cache hold the
\* declarations of the new document, and the index entry expires when the
\* response says.
C18_RefreshReplaces ==
    (last.expired /\ last.net = "ok" /\ last.raised = "")
    => /\ last.result = "new"
       /\ files[last.uri] = "new"
       /\ local_cache[last.uri] = "new"
       /\ index[last.uri].expires \in ResponseExpiries(last.at)

\* C19: when the index entry has not expired and its artifact cannot be
\* loaded, the URI is fetched and the fetched declarations are returned.
C19_LoadFailureRefetches ==
    (last.unexpired /\ last.cached = NoFile /\ last.path # "local_cache")
    => /\ last.fetched = 1
       /\ last.net = "ok" => last.result = "new"

\* C21: when the first fetch of a URI that was never cached fails, the run
\* time cache holds no entry for the URI afterwards, and a later resolution
\* of the URI in the same run is never answered from the run time cache with
\* the empty (terms, ns, vocabulary).
C21_FailureLeavesNoEntry ==
    /\ (last.path = "new" /\ last.raised = "FailedProfile")
       => local_cache[last.uri] = NoEntry
    /\ (last.path = "local_cache" /\ firstPath[last.uri] = "new")
       => last.result # EMPTY

\* C22: two threads that resolve the same URI, never cached before, at the
\* same time obtain the same (terms, ns, vocabulary): a construction that
\* starts while another thread is still fetching the URI is not answered with
\* the placeholder of the run time cache.
C22_ConcurrentResolvesAgree ==
    \A t \in Threads :
        (threads[t].pc = "returned" /\ threads[t].overlapped)
        => /\ threads[t].result # EMPTY
           /\ \A o \in Threads :
                 (/\ threads[o].pc = "returned"
                  /\ threads[o].uri = threads[t].uri
                  /\ threads[o].raised = "")
                 => threads[o].result = threads[t].result

\* C23: while a process rewrites the index file, what any other process
\* loads from the file is the complete index of before the rewrite or the
\* complete new index, never an empty or partly written file.
C23_AtomicIndexWrites == observed.seen \in {observed.old, observed.new}

-----------------------------------------------------------------------------
(* Claims on the tree walk *)

\* element n has a @rel with a predicate and nothing that resolves to an object
RelWithoutObject(n) ==
    /\ SelectSeq(attrs[n].rel, NotBlank) # <<>>
    /\ attrs[n].rev = <<>>
    /\ ~attrs[n].resource

\* the @rel of element n accumulates a list
ListMode(n) == Version11 /\ attrs[n].inlist

\* d is the first element with RDFa attributes on its path below n: the call
\* for d is given the incomplete triples of n
CompletingDescendant(d, n) ==
    /\ IsDescendant(d, n)
    /\ has_rdfa_attributes(d)
    /\ \A m \in Nodes :
          IsDescendant(d, m) /\ IsDescendant(m, n) => ~has_rdfa_attributes(m)

Returned(n) == locals[n].called /\ locals[n].returned

AddsFor(n, d) == {i \in 1..Len(graph) : graph[i].origin = n /\ graph[i].by = d}

IncompleteRoundTrip(n) ==
    LET preds == {PredURI(attrs[n].rel[i]) : i \in 1..Len(attrs[n].rel)}
    IN /\ \A i \in 1..Len(graph) :
             graph[i].by = n /\ graph[i].at = "enter" => graph[i].p \notin preds
       /\ \A i \in 1..Len(graph) :
             graph[i].origin = n =>
                LET d == graph[i].by
                IN /\ graph[i].at = "return"
                   /\ CompletingDescendant(d, n)
                   /\ Returned(d)
                   /\ \A c \in Nodes : IsDescendant(c, d) => Returned(c)
                   /\ graph[i].s = locals[n].current_subject
                   /\ graph[i].p \in preds
                   /\ graph[i].o = locals[d].current_subject
       /\ \A d \in Nodes :
             CompletingDescendant(d, n) /\ Returned(d) =>
                Cardinality(AddsFor(n, d)) = 1

\* C3 as stated: for every element with a @rel predicate p and no resolvable
\* object, no triple for p is added while the element itself is processed, and
\* each descendant that is given its incomplete triple adds (subject of the
\* element, p, subject of the descendant) once, on its return.
C3_AsStated ==
    \A n \in Nodes :
        locals[n].called /\ RelWithoutObject(n) => IncompleteRoundTrip(n)

\* C3: the same for an element whose @rel does not accumulate a list (no
\* @inlist, or RDFa 1.0): no triple for p before the children are walked;
\* every triple completed for the element is (its subject, p, the subject of
\* the completing descendant), added on that descendant's return, after all
\* of the descendant's own descendants have returned, once per descendant.
C3_IncompleteRoundTrip ==
    \A n \in Nodes :
        locals[n].called /\ RelWithoutObject(n) /\ ~ListMode(n)
            => IncompleteRoundTrip(n)

\* a hanging @rel, below it an element without attributes, below that an
\* element with @about that has returned and completed the triple
C3_Witness ==
    \E n, d \in Nodes :
        /\ locals[n].called /\ RelWithoutObject(n) /\ ~ListMode(n)
        /\ CompletingDescendant(d, n)
        /\ parentOf[d] # n
        /\ attrs[d].about
        /\ Returned(d)
        /\ \E i \in AddsFor(n, d) :
              /\ graph[i].s = locals[n].current_subject
              /\ graph[i].o = AboutURI(d)

\* the values the children of n contribute to the list of p, in document order
RECURSIVE Contributed(_, _)
Contributed(cs, p) ==
    IF cs = <<>> THEN <<>>
    ELSE (IF attrs[Head(cs)].rel = <<p>> THEN <<ResourceURI(Head(cs))>> ELSE <<>>)
         \o Contributed(Tail(cs), p)

\* element n establishes a subject of its own without @rel/@rev, and each of
\* its children contributes one value to a list on that subject
ListScenario(n) ==
    /\ Version11
    /\ ~has_rel_or_rev(n)
    /\ attrs[n].about \/ attrs[n].resource \/ attrs[n].typeof
    /\ childNodes(n) # <<>>
    /\ \A c \in Nodes :
          parentOf[c] = n =>
             /\ attrs[c].inlist /\ attrs[c].resource
             /\ ~attrs[c].about /\ ~attrs[c].typeof
             /\ Len(attrs[c].rel) = 1 /\ attrs[c].rel[1] \in Preds
             /\ attrs[c].rev = <<>>

ListNodeIds == {graph[i].s.id : i \in {j \in 1..Len(graph) : graph[j].p = rdf_first}}

WellFormedList(n, subject, p, values) ==
    LET T == Triples(SelectSeq(graph, LAMBDA e : e.by = n /\ e.at = "list"))
        k == Len(values)
        triple(s, q, o) == [s |-> s, p |-> q, o |-> o]
    IN \E b \in [1..k -> ListNodeIds] :
          /\ \A i, j \in 1..k : b[i] = b[j] => i = j
          /\ \A i \in 1..k : triple(BNodeOf(b[i]), rdf_first, values[i]) \in T
          /\ \A i \in 1..(k - 1) :
                triple(BNodeOf(b[i]), rdf_rest, BNodeOf(b[i + 1])) \in T
          /\ triple(BNodeOf(b[k]), rdf_rest, rdf_nil) \in T
          /\ triple(subject, PredURI(p), BNodeOf(b[1])) \in T
          /\ \A t \in T : t.s = subject /\ t.p = PredURI(p) => t.o = BNodeOf(b[1])

\* every blank node of a list is the subject of one rdf:first and one rdf:rest
\* triple, and nothing but the triples of its own list mentions it
ListNodesFresh ==
    \A b \in ListNodeIds :
        /\ Cardinality({i \in 1..Len(graph) :
              graph[i].s = BNodeOf(b) /\ graph[i].p = rdf_first}) = 1
        /\ Cardinality({i \in 1..Len(graph) :
              graph[i].s = BNodeOf(b) /\ graph[i].p = rdf_rest}) = 1
        /\ Cardinality({i \in 1..Len(graph) : graph[i].o = BNodeOf(b)}) = 1
        /\ \A i \in 1..Len(graph) :
              graph[i].s = BNodeOf(b) \/ graph[i].o = BNodeOf(b)
                 => graph[i].at = "list"
        /\ \A n \in Nodes :
              locals[n].called =>
                 /\ locals[n].current_subject # BNodeOf(b)
                 /\ locals[n].object_to_children # BNodeOf(b)

\* C4: when the children of an element that established a subject S each
\* contribute one value to the list of a predicate, the triples added on the
\* element's return are a well-formed list of these values in document order
\* (distinct blank nodes b1..bk, (bi, rdf:first, vi), (bi, rdf:rest, bi+1),
\* (bk, rdf:rest, rdf:nil), (S, predicate, b1)), and no blank node of a list
\* belongs to another list or occurs anywhere else in the document.
C4_ListMaterialization ==
    /\ ListNodesFresh
    /\ \A n \in Nodes :
          locals[n].called /\ Returned(n) /\ ListScenario(n) =>
             \A p \in Preds :
                Contributed(childNodes(n), p) # <<>> =>
                   WellFormedList(n, locals[n].current_subject, p,
                                  Contributed(childNodes(n), p))

\* an element with @about and three children, each with a value for the list
\* of p, has returned
C4_Witness ==
    \E n \in Nodes :
        /\ locals[n].called /\ Returned(n) /\ ListScenario(n)
        /\ attrs[n].about
        /\ Len(Contributed(childNodes(n), "p")) = 3
        /\ Len(SelectSeq(graph, LAMBDA e : e.by = n /\ e.p = rdf_first)) = 3

\* the incomplete triples element n registered for its children (the encoded
\* hanging @rel of a collection is not a triple)
RegisteredAt(n) ==
    IF locals[n].called /\ ~locals[n].skipped
    THEN SelectSeq(locals[n].incomplete_triples, NotSentinel)
    ELSE <<>>

\* the graph.add calls that completed the incomplete triple t of element n
CompletionsOf(n, t) ==
    {i \in 1..Len(graph) :
        /\ graph[i].origin = n
        /\ graph[i].at = "return"
        /\ graph[i].p = t.p
        /\ t.s # None => graph[i].s = t.s
        /\ t.o # None => graph[i].o = t.o}

CompletionCount(n) ==
    \A k \in 1..Len(RegisteredAt(n)) :
        LET done == CompletionsOf(n, RegisteredAt(n)[k])
        IN /\ Cardinality(done) =
                 Cardinality({d \in Nodes : CompletingDescendant(d, n)})
           /\ \A i \in done : CompletingDescendant(graph[i].by, n)
           /\ \A d \in Nodes :
                 CompletingDescendant(d, n)
                 => Cardinality({i \in done : graph[i].by = d}) = 1

\* C26: when the document has been processed, every incomplete triple an
\* element registered has been completed once by each first descendant with
\* RDFa attributes on a path below the element, by no other element, and not
\* at all when there is no such descendant.
C26_CompletionCount ==
    dom.outcome # "" => \A n \in Nodes : CompletionCount(n)

\* C9: when the construction of the ExecutionContext of an element other than
\* the root fails on its vocabulary reference, the walk goes on: graph_from_DOM
\* returns, an error record is in the processor graph and the siblings after
\* the element are processed.
C9_SubtreeAbort ==
    \A n \in Nodes \ {Root} :
        (ConstructionFails(n) /\ ~ConstructionFails(Root)
            /\ locals[parentOf[n]].called /\ dom.outcome # "")
        => /\ dom.outcome = "returned"
           /\ \A c \in Nodes : parentOf[c] = parentOf[n] /\ c > n => locals[c].called

\* C10: when the vocabulary reference of the root element fails, neither
\* graph_from_DOM nor graph_from_source raises, and what graph_from_source
\* returns holds an error record for the failure.
C10_FatalTopLevelFailure ==
    ConstructionFails(Root) =>
        /\ dom.outcome # "raised"
        /\ source.outcome = "returned" =>
              \E r \in source.graph : IsErrorRecord(r)

\* C30: when graph_from_DOM, or graph_from_source on its error path, has
\* returned, the processor graph of the options is empty, and the processing
\* of a document starts with an empty processor graph, so that the
\* diagnostics of a document are records made while that document was
\* processed.
C30_NoLeakBetweenParses ==
    /\ (dom.outcome = "returned" \/ source.outcome = "returned")
       => processor_graph = <<>>
    /\ (dom.outcome = "" /\ stack = <<>>) => processor_graph = <<>>

-----------------------------------------------------------------------------
(* Claims on the inheritance of prefixes *)

\* no element below element i, down to element j, declares prefix k
NotRedeclared(i, j, k) ==
    \A m \in (i + 1)..j : k \notin DOMAIN LocalDict(stack[m].decl)

AddsBy(n) == SelectSeq(graph, LAMBDA t : t.by = n)

\* C17: a prefix declared on an element is bound to the same URI in the table
\* of every descendant down to which it is not declared again, and a
\* descendant with a @rel that uses the prefix and with a resource, whose
\* parent object is the document base, adds the one triple (base, URI of the
\* prefix followed by the reference, resource) and registers no incomplete
\* triple.
C17_PrefixInheritance ==
    \A i \in 1..Len(stack), j \in 1..Len(stack) :
        i < j
        => \A k \in DOMAIN LocalDict(stack[i].decl) :
              NotRedeclared(i, j, k)
              => /\ k \in DOMAIN stack[j].ns
                 /\ stack[j].ns[k] = LocalDict(stack[i].decl)[k]
                 /\ (/\ stack[j].done
                     /\ stack[j].rel.resource
                     /\ CuriePrefix(stack[j].rel.val) = k)
                    => /\ AddsBy(j) =
                            <<Add(Base,
                                  URIRef(LocalDict(stack[i].decl)[k]
                                         \o SplitReference(stack[j].rel.val)),
                                  Thing, j, "enter", 0)>>
                       /\ stack[j].incomplete_triples = <<>>

\* the root declares the prefix with @prefix, its child declares another
\* prefix, and the grandchild has added the triple
C17_Witness ==
    /\ rdfa_version = "1.1"
    /\ Len(stack) = 3
    /\ stack[1].decl = PrefixFoo
    /\ stack[2].decl = XmlnsOther
    /\ stack[3].decl = NoDecls
    /\ stack[3].done
    /\ AddsBy(3) = <<Add(Base, URIRef(FooURI \o <<"b">>), Thing, 3, "enter", 0)>>
    /\ stack[3].incomplete_triples = <<>>

-----------------------------------------------------------------------------
(* Claims on the recursion guard *)

\* the next reference of the parse in progress is to a document in flight
ReentrantRequest ==
    /\ stack # <<>>
    /\ Top.todo # <<>>
    /\ Head(Top.todo) \in InFlight

\* C20: a reference to a vocabulary document that is being fetched is
\* answered without a fetch and without an exception, with no declarations,
\* and the parse goes on with the next reference; every parse that was
\* started ends.
C20_RecursionGuard ==
    /\ [][ReentrantRequest
          => /\ fetches' = fetches
             /\ stack' = Continue
             /\ last'.uri = Head(Top.todo)
             /\ last'.raised = ""
             /\ last'.result = EMPTY
             /\ profile_cache' = profile_cache
             /\ local_cache' = local_cache]_vars
    /\ (stack # <<>>) ~> (stack = <<>>)

\* a document refers to itself through another document: the host refers to
\* u1, u1 to u2, and the reference of u2 to u1 has been answered while both
\* are in flight
C20_Witness ==
    /\ Len(stack) = 3
    /\ stack[2].uri = "u1"
    /\ stack[3].uri = "u2"
    /\ last.uri = "u1"
    /\ last.fetched = 0
    /\ last.path \in {"profile_stack", "local_cache"}
    /\ fetches["u1"] = 1

\* the local declarations of an element that the version reads, in the order
\* of the document, and the prefix each of them declares
DeclaredBy(e) == IF Version11 THEN e.xmlns \o e.prefix ELSE e.xmlns
DeclaredPrefix(d) == IF Version11 THEN Lower(d.prefix) ELSE d.prefix

\* C27: when the local declarations of an element declare a prefix more than
\* once, the table of the element binds the prefix to the URI of the last of
\* these declarations.
C27_LaterDeclarationWins ==
    stack # <<>>
    => LET D == DeclaredBy(stack[1].decl)
       IN \A i \in 1..Len(D), j \in 1..Len(D) :
             (/\ i < j
              /\ DeclaredPrefix(D[i]) = DeclaredPrefix(D[j])
              /\ \A k \in (j + 1)..Len(D) :
                    DeclaredPrefix(D[k]) # DeclaredPrefix(D[j]))
             => stack[1].ns[DeclaredPrefix(D[j])] = D[j].uri

\* the dictionary of frame i is a new object that holds the entries of the
\* parent's with the declarations d on top
CopiesThenOverrides(id, was, parent, parent_was, d, i, ids) ==
    /\ id \notin {ids[j] : j \in 1..(i - 1)}
    /\ DOMAIN parent_was \cup DOMAIN d \subseteq DOMAIN was
    /\ \A k \in DOMAIN d : was[k] = d[k]
    /\ \A k \in DOMAIN parent_was \ DOMAIN d : was[k] = parent_was[k]

\* C28: the dictionaries of a state are never written after its construction;
\* the state of a child with local declarations (prefixes of the element or
\* of its @profile for ns, terms of its @profile for terms) has a new
\* dictionary with the parent's entries and the declarations on top, and the
\* state of a child without them refers to the parent's dictionary itself.
C28_TablesImmutable ==
    \A i \in 1..Len(stack) :
        LET f == stack[i]
            d == LocalDictOver(f.vocab, f.decl)
            nsIds == [j \in 1..Len(stack) |-> stack[j].ns]
            termIds == [j \in 1..Len(stack) |-> stack[j].terms]
        IN /\ heap[f.ns] = f.ns_was
           /\ f.terms # 0 => heap[f.terms] = f.terms_was
           /\ i > 1 =>
                 /\ IF DOMAIN d = {}
                    THEN f.ns = stack[i - 1].ns
                    ELSE CopiesThenOverrides(f.ns, f.ns_was, stack[i - 1].ns,
                                             stack[i - 1].ns_was, d, i, nsIds)
                 /\ f.terms # 0 =>
                       IF DOMAIN f.vocab.terms = {}
                       THEN f.terms = stack[i - 1].terms
                       ELSE CopiesThenOverrides(f.terms, f.terms_was,
                                                stack[i - 1].terms,
                                                stack[i - 1].terms_was,
                                                f.vocab.terms, i, termIds)

\* a path of three elements: the second redeclares a prefix of the first and
\* its @profile declares a term, the third declares nothing
C28_Witness ==
    /\ Len(stack) = 3
    /\ stack[1].decl = XmlnsFoo
    /\ stack[2].decl = PrefixUpper
    /\ DOMAIN stack[2].vocab.terms # {}
    /\ stack[3].decl = NoDecls /\ stack[3].vocab = NoProfile
    /\ stack[2].ns # stack[1].ns
    /\ stack[3].ns = stack[2].ns /\ stack[3].terms = stack[2].terms
    /\ heap[stack[1].ns][<<"a">>] = FooURI
    /\ heap[stack[2].ns][<<"a">>] = OtherURI

\* C25: when no reference is being resolved ProfileRead.profile_stack is
\* empty, whatever way the constructions ended, and a reference is only
\* passed over as in flight when its document is being fetched and parsed.
C25_GuardBalanced ==
    /\ stack = <<>> => profile_stack = <<>>
    /\ last.path = "profile_stack" => last.uri \in InFlight

\* C24: the entry of a URI in ProfileRead.profile_cache holds the
\* declarations of that URI's document only and stays what it was when it was
\* stored, whatever is resolved afterwards.
C24_CachedResultsKept ==
    \A u \in URIs :
        profile_cache[u] # NoTuple
        => /\ heap[profile_cache[u].terms] = {u}
           /\ heap[profile_cache[u].ns] = {u}
           /\ profile_cache[u].vocabulary \in {NoVocab, <<u>>}
           /\ Tuple(heap[profile_cache[u].terms], heap[profile_cache[u].ns],
                    profile_cache[u].vocabulary) = stored[u]

\* C29: when the graph of a vocabulary document holds more than one default
\* vocabulary, a warning is recorded, no default vocabulary is set, the valid
\* terms and prefixes of the document are extracted all the same, and nothing
\* is raised.
C29_SeveralVocabularies ==
    (extraction.reader # "" /\ Cardinality(vocab_graph.voc_defs) > 1)
    => /\ extraction.raised = ""
       /\ \E i \in 1..Len(extraction.warnings) :
             extraction.warnings[i] = more_vocab_URI
       /\ extraction.vocabulary = {}
       /\ extraction.terms = Found(vocab_graph).terms
       /\ extraction.ns = Found(vocab_graph).ns

-----------------------------------------------------------------------------
(* Claims on attribute values that do not resolve *)

\* the element without the attributes whose value is an illegal CURIE
Removed(a) ==
    [a EXCEPT !.about = a.about /\ "about" \notin a.malformed,
              !.resource = a.resource /\ "resource" \notin a.malformed,
              !.malformed = {}]

\* what the call for element n, made with the arguments of l, does for the
\* element without those attributes
AsIfAbsent(n, l) ==
    IF has_one_of_attributes(Removed(attrs[n]))
    THEN VisitAs(Removed(attrs[n]), n, l.parent_object, l.incoming,
                 l.parent_incomplete_triples)
    ELSE Skip(n, l.parent_object, l.incoming, l.parent_incomplete_triples)

\* C11: the call of parse_one_node for an element with an @about or a
\* resource attribute that does not resolve sets the subject and the object,
\* and adds the triples, that it would for the element without that
\* attribute, and a record is added to the processor graph.
C11_FailureMeansAbsent ==
    [][\A n \in Nodes :
          (~locals[n].called /\ locals'[n].called /\ attrs[n].malformed # {})
          => LET l == locals'[n]
                 w == AsIfAbsent(n, l)
             IN /\ ~w.locals.skipped
                   => /\ l.current_subject = w.locals.current_subject
                      /\ l.current_object = w.locals.current_object
                /\ graph' = graph \o w.adds
                /\ Len(processor_graph') > Len(processor_graph)]_vars

\* C12: an element with @property and an explicit rdf:XMLLiteral datatype
\* gets the XML literal, and no triple is added by a call for one of its
\* descendants.
C12_XMLLiteralStopsWalk ==
    \A n \in Nodes :
        (locals[n].called /\ attrs[n].xml)
        => /\ \E i \in 1..Len(graph) :
                 graph[i].by = n /\ graph[i].o = XMLLiteralOf(n)
           /\ \A i \in 1..Len(graph) : ~IsDescendant(graph[i].by, n)

BlankCount(values) == Len(values) - Len(SelectSeq(values, NotBlank))

BlankWarnings(n) ==
    Cardinality({i \in 1..Len(processor_graph) :
                    /\ processor_graph[i].node = n
                    /\ processor_graph[i].class = "IncorrectBlankNodeUsage"})

AddedBy(n, s, p, o) ==
    \E i \in 1..Len(graph) :
        /\ graph[i].by = n /\ graph[i].at = "enter"
        /\ graph[i].s = s /\ graph[i].p = p /\ graph[i].o = o

\* C13: no triple has a blank node as predicate; a value of @rel, @rev or
\* @property that is a blank node gets one warning and does not end the
\* parse, and the other values of the attribute get their triples.
C13_NoBlankPredicate ==
    /\ \A i \in 1..Len(graph) : NotBlank(PredName(graph[i].p))
    /\ \A n \in Nodes :
          (locals[n].called /\ ~locals[n].skipped)
          => LET a == attrs[n]
                 l == locals[n]
             IN /\ ~(dom.outcome = "raised" /\ dom.at = n)
                /\ dom.outcome = ""
                   => BlankWarnings(n) = BlankCount(a.rel) + BlankCount(a.rev)
                                         + BlankCount(a.properties)
                /\ \A i \in 1..Len(a.properties) :
                      NotBlank(a.properties[i])
                      => \E o \in {LiteralOf(n), XMLLiteralOf(n)} :
                            AddedBy(n, l.current_subject,
                                    PredURI(a.properties[i]), o)
                /\ \A i \in 1..Len(a.rel) :
                      (NotBlank(a.rel[i]) /\ l.current_object # None
                          /\ ~(Version11 /\ a.inlist))
                      => AddedBy(n, l.current_subject, PredURI(a.rel[i]),
                                 l.current_object)
                /\ \A i \in 1..Len(a.rev) :
                      (NotBlank(a.rev[i]) /\ l.current_object # None)
                      => AddedBy(n, l.current_object, PredURI(a.rev[i]),
                                 l.current_subject)

====
